---- MODULE Spec2Model ----
(***************************************************************************)
(* A model of the vanilla hub (src/vanilla.py: Hub, Scheduler) and of the  *)
(* message primitives built on it (src/vanilla/message.py: Pipe, End,      *)
(* Sender, Recver, Queue).                                                 *)
(*                                                                         *)
(* Greenlets are cooperative: exactly one runs at a time and control moves *)
(* only at an explicit switch/throw or when a greenlet finishes.  One      *)
(* action is therefore the run of the current greenlet from the point      *)
(* where it was resumed to the point where it next gives up control.       *)
(***************************************************************************)
EXTENDS Integers, Sequences, FiniteSets, TLC

\* ------------------------------------------------------------------ bounds
\* the number of items the tasks send in one run
MaxItems == 2
\* the clock stops arming timers beyond this time
MaxTime == 1
\* the longest ready queue the tasks are allowed to build
MaxReady == 3
\* the number of calls (send, recv, pause, sleep, switch_to, close) the
\* tasks make in one run
MaxCalls == 4

\* ------------------------------------------------------------ identifiers
None == "none"
Loop == "loop"
Exit == "exit"
Crash == "crash"
Root == "root"

\* the greenlets running user code: the main greenlet and two spawned ones
Agents == {"root", "a", "b"}
\* the pipe middles and their ends (Pipe.__new__ makes one Sender, one Recver)
Pipes == {"m1", "m2", "m3"}
Senders == {"s1", "s2", "s3"}
Recvers == {"r1", "r2", "r3"}
Ends == Senders \cup Recvers
\* the greenlet the hub starts for `remaining.abandoned` of a pipe
HookOf(m) == IF m = "m1" THEN "h1" ELSE IF m = "m2" THEN "h2" ELSE "h3"
Hooks == {"h1", "h2", "h3"}
\* the greenlet running Queue.main
QueueTask == "q"
\* the greenlet running the transform spawned by Recver.pipe(fn)
FnTask == "fn"
\* the greenlets running the reader Signal.start spawns, one per signalfd
Readers == {"k1", "k2"}
Greenlets == Agents \cup Hooks \cup {QueueTask, FnTask} \cup Readers

\* timeouts passed to send / recv / pause, and delays passed to sleep (ms)
Timeouts == {-1, 1}
Delays == {0}

VARIABLES
    cur,        \* the running greenlet: a task, Loop, or Exit / Crash
    msg,        \* what the running greenlet was resumed with
    pc,         \* where each greenlet is suspended (or "run", "none", "done")
    frame,      \* the locals of the call each greenlet is suspended in
    ready,      \* Hub.ready
    scheduled,  \* Hub.scheduled: [count, queue, removed]
    now,        \* time.time()
    stopped,    \* Hub.stopped.fired
    pipes,      \* the Pipe objects: closed, weak refs to the ends, parked slots
    middle,     \* End.middle
    queue,      \* the deque of Queue.main
    res,        \* the call that completed last: who, what, how
    calls,      \* the number of calls the tasks have made
    nextItem,   \* the next item a task will send
    sentLog,    \* the items handed over by a send that went on to return
    recvLog,    \* the items returned by recv, in order
    users,      \* the tasks that have called send, and those that have called recv
    hist,       \* observations the properties below are stated over
    event,      \* an Event: fired, and the deque objects it has had as waiters
    value,      \* a Value: whether it holds a value, the value, waiters
    subscribers,\* Broadcast.subscribers: the list objects it has had
    registered, \* Hub.registered: fd -> the Channel of its events
    mainAt,     \* where the loop greenlet is in Hub.main: "loop", "set", "done"
    stopWaiters,\* Hub.stopped.waiters
    signal      \* Hub.signal: fd, count, mapper, reverse_mapper

vars == <<cur, msg, pc, frame, ready, scheduled, now, stopped, pipes, middle,
          queue, res, calls, nextItem, sentLog, recvLog, users, hist,
          event, value, subscribers, registered, mainAt, stopWaiters, signal>>

\* ----------------------------------------------------- values switched in
\* greenlet.switch() delivers () ; switch(end, item) delivers the pair;
\* run_task(task, Timeout(..)) delivers the Timeout instance as a value;
\* greenlet.throw(exc) raises exc at the suspension point.
Unit == [k |-> "unit", a |-> None, b |-> 0]
Pair(e, x) == [k |-> "pair", a |-> e, b |-> x]
TimeoutVal(id) == [k |-> "timeout", a |-> None, b |-> id]
Exc(name, x) == [k |-> "exc", a |-> name, b |-> x]

IsException(x) == x < 0

NoItem == [due |-> 0, action |-> None, args |-> 0]
NoFrame ==
    [end |-> None, item |-> 0, tmo |-> -1, timer |-> NoItem, watch |-> <<>>,
     over |-> 0, index |-> 0, to_remove |-> <<>>]
NoRes == [task |-> None, op |-> None, out |-> None]

\* ----------------------------------------------------------- Scheduler
\* heapq keeps the least item at queue[0]; items with equal due are ordered
\* by their remaining fields, an order the program does not control, so a new
\* item may land anywhere among the items of its own due time.
heappush(q, item) ==
    { [i \in 1..(Len(q) + 1) |->
          IF i < p THEN q[i] ELSE IF i = p THEN item ELSE q[i - 1]] :
      p \in { p \in 1..(Len(q) + 1) :
                /\ \A i \in 1..(p - 1) : q[i].due <= item.due
                /\ \A i \in p..Len(q) : item.due <= q[i].due } }

Scheduler_init == [count |-> 0, queue |-> <<>>, removed |-> {}]

Scheduler_add(s, item, q2) ==
    [s EXCEPT !.queue = q2, !.count = @ + 1]

\* a remove that leaves count alone
Scheduler_remove_counted(s, item) == [s EXCEPT !.removed = @ \cup {item}]

Scheduler_remove(s, item) ==
    [s EXCEPT !.removed = @ \cup {item}, !.count = @ - 1]

\* prune reads queue[0] without a bounds check: on a heap holding nothing
\* but tombstones it raises IndexError
PruneFaults(s) == \A i \in 1..Len(s.queue) : s.queue[i] \in s.removed

RECURSIVE Scheduler_prune(_)
Scheduler_prune(s) ==
    IF s.queue = <<>> \/ Head(s.queue) \notin s.removed
    THEN s
    ELSE Scheduler_prune([s EXCEPT !.queue = Tail(@),
                                   !.removed = @ \ {Head(s.queue)}])

Scheduler_timeout(s, t) == Head(Scheduler_prune(s).queue).due - t

\* pop returns the item and the scheduler left behind
Scheduler_pop(s) ==
    LET p == Scheduler_prune(s)
    IN [item |-> Head(p.queue),
        sched |-> [p EXCEPT !.queue = Tail(@), !.count = @ - 1]]

\* the Timeout instance of a new pause: an object distinct from every other
FreshId(s) ==
    CHOOSE n \in 1..(Len(s.queue) + 1) :
        \A i \in 1..Len(s.queue) : s.queue[i].args # n

\* ------------------------------------------------------------------ End
IsSender(e) == e \in Senders

\* Sender.other / Recver.other: the weak reference of the middle, None once
\* the other end has been collected
other(ps, mid, e) ==
    IF IsSender(e) THEN ps[mid[e]].recver ELSE ps[mid[e]].sender

\* Dealer.__new__ (line 526): recver.__class__ = Dealer.Recver, the class
\* that overrides select, unselect, peak and abandoned; the middle records
\* the class of its recver
IsDealerRecver(ps, mid, e) == ~IsSender(e) /\ ps[mid[e]].dealer

\* Sender.current / Recver.current
current(ps, mid, e) ==
    IF IsSender(e) THEN ps[mid[e]].sender_current ELSE ps[mid[e]].recver_current

set_current(ps, mid, e, v) ==
    IF IsSender(e) THEN [ps EXCEPT ![mid[e]].sender_current = v]
    ELSE [ps EXCEPT ![mid[e]].recver_current = v]

\* bool(end.current): a task for a basic end; for a Dealer.Recver the deque
\* of receivers, false when empty
occupied(ps, mid, e) ==
    IF IsDealerRecver(ps, mid, e) THEN current(ps, mid, e) # <<>>
    ELSE current(ps, mid, e) # None

\* End.peak; Dealer.Recver.peak (lines 515-517) is self.current[0], an
\* IndexError (None here) on an empty deque
peak(ps, mid, e) ==
    IF IsDealerRecver(ps, mid, e)
    THEN (IF current(ps, mid, e) = <<>> THEN None ELSE Head(current(ps, mid, e)))
    ELSE current(ps, mid, e)

\* End.halted
halted(ps, mid, e) == ps[mid[e]].closed \/ other(ps, mid, e) = None

\* a ready that does not look at the closed flag
End_ready_unclosed(ps, mid, e) ==
    IF other(ps, mid, e) = None THEN "Abandoned"
    ELSE IF ps[mid[e]].recver_current # None /\ IsSender(e) THEN "yes"
    ELSE IF ps[mid[e]].sender_current # None /\ ~IsSender(e) THEN "yes"
    ELSE "no"

\* End.ready: raises Closed or Abandoned, else bool(other.current)
End_ready(ps, mid, e) ==
    IF ps[mid[e]].closed THEN "Closed"
    ELSE IF other(ps, mid, e) = None THEN "Abandoned"
    ELSE IF occupied(ps, mid, other(ps, mid, e)) THEN "yes"
    ELSE "no"

\* a select that takes the slot whoever holds it
select_any(ps, mid, e) == TRUE

\* deque.remove(t): the first occurrence of t is taken out
RECURSIVE deque_remove(_, _)
deque_remove(q, t) ==
    IF q = <<>> THEN q
    ELSE IF Head(q) = t THEN Tail(q)
    ELSE <<Head(q)>> \o deque_remove(Tail(q), t)

\* End.select: assert self.current is None; Dealer.Recver.select (lines
\* 508-510): assert getcurrent() not in self.current
select_ok(ps, mid, e) ==
    IF IsDealerRecver(ps, mid, e)
    THEN \A i \in 1..Len(current(ps, mid, e)) : current(ps, mid, e)[i] # cur
    ELSE current(ps, mid, e) = None
End_select(ps, mid, e, t) ==
    IF IsDealerRecver(ps, mid, e)
    THEN set_current(ps, mid, e, Append(current(ps, mid, e), t))
    ELSE set_current(ps, mid, e, t)

\* End.unselect: assert self.current == getcurrent(); Dealer.Recver.unselect
\* (lines 512-513): self.current.remove(getcurrent()), a ValueError when the
\* task is not in the deque
unselect_ok(ps, mid, e, t) ==
    IF IsDealerRecver(ps, mid, e)
    THEN \E i \in 1..Len(current(ps, mid, e)) : current(ps, mid, e)[i] = t
    ELSE current(ps, mid, e) = t
unselect_error(ps, mid, e) ==
    IF IsDealerRecver(ps, mid, e) THEN "ValueError" ELSE "AssertionError"
End_unselect(ps, mid, e, t) ==
    IF ~unselect_ok(ps, mid, e, t) THEN ps
    ELSE IF IsDealerRecver(ps, mid, e)
    THEN set_current(ps, mid, e, deque_remove(current(ps, mid, e), t))
    ELSE set_current(ps, mid, e, None)

\* ------------------------------------------------------------------ Pipe
\* Pipe.__new__: not closed, both ends referenced weakly, nobody parked
Pipe_new(s, r) ==
    [closed |-> FALSE, sender |-> s, recver |-> r,
     sender_current |-> None, recver_current |-> None, dealer |-> FALSE]

\* Dealer.__new__ (lines 524-528): a pipe whose recver is a Dealer.Recver
\* with an empty deque as current
Dealer_new(s, r) ==
    [Pipe_new(s, r) EXCEPT !.dealer = TRUE, !.recver_current = <<>>]

\* a middle no Pipe() call has built
NoPipe == Pipe_new(None, None)

\* End.__init__: each end starts on the middle it was built with
Middle_init ==
    [e \in Ends |-> IF e \in {"s1", "r1"} THEN "m1"
                    ELSE IF e \in {"s2", "r2"} THEN "m2" ELSE "m3"]

\* an End object is alive while a middle still holds a live weak reference to it
Live(e) == \E m \in Pipes : pipes[m].sender = e \/ pipes[m].recver = e

\* a suspended call on end e keeps `self` on its stack; a spawned
\* `remaining.abandoned` keeps the end through the bound method
Referenced(e) ==
    \E g \in Greenlets :
        /\ pc[g] \notin {"none", "done"}
        /\ (pc[g] = "run" => g \in Hooks)
        /\ frame[g].end = e

\* the tasks suspended in a send / recv on end e
ParkedOn(e) ==
    { g \in Greenlets : pc[g] \in {"send", "recv", "recv_sw"} /\ frame[g].end = e }

\* -------------------------------------------------------------------- Hub
GreenletEntry(t) == [task |-> t, thunk |-> FALSE]
ThunkEntry(t) == [task |-> t, thunk |-> TRUE]

\* self.loop.switch(): into the hub loop; once main() has returned the loop
\* greenlet is dead and a switch into it lands in its parent, the main greenlet
LoopTarget == IF mainAt = "done" THEN Root ELSE Loop

\* greenlet.switch(*a) / greenlet.throw(exc) into target: a dead target passes
\* the switch on to its parent, where a thrown exception is raised
SwitchInto(target, m) ==
    /\ cur' = IF target \in Greenlets /\ pc[target] = "done"
              THEN (IF m.k = "exc" THEN Crash ELSE LoopTarget)
              ELSE target
    /\ msg' = m

\* the running greenlet t completes call op with outcome out (a return when
\* out = "ok", else the exception raised) and goes on running
Returns(t, op, out, val) ==
    /\ cur' = t
    /\ msg' = Unit
    /\ pc' = [pc EXCEPT ![t] = "run"]
    /\ frame' = [frame EXCEPT ![t] = NoFrame]
    /\ res' = [task |-> t, op |-> op, out |-> out]

\* the running greenlet t suspends at `where` by switching into target
Suspends(t, where, fr, target, m) ==
    /\ pc' = [pc EXCEPT ![t] = where]
    /\ frame' = [frame EXCEPT ![t] = fr]
    /\ res' = res
    /\ SwitchInto(target, m)

Running(t) == cur = t /\ pc[t] = "run"

\* the running task t starts one more call
Calls(t) == Running(t) /\ calls < MaxCalls /\ calls' = calls + 1

\* a pause that leaves its timer in the heap when a value arrives
Hub_pause_resume_keep(fr, m, sch, stp) ==
    IF m.k = "exc"
    THEN [out |-> m.a, sched |-> sch]
    ELSE IF fr.tmo > -1 /\ m.k = "timeout"
    THEN [out |-> "Timeout", sched |-> sch]
    ELSE [out |-> IF stp THEN "Closed" ELSE "ok", sched |-> sch]

\* Hub.pause after `resume = self.loop.switch()` (lines 362-373): what the
\* call does with the value or exception m it was resumed with
Hub_pause_resume(fr, m, sch, stp) ==
    IF m.k = "exc"
    THEN [out |-> m.a, sched |-> sch]
    ELSE IF fr.tmo > -1 /\ m.k = "timeout"
    THEN [out |-> "Timeout", sched |-> sch]
    ELSE LET s2 == IF fr.tmo > -1 THEN Scheduler_remove(sch, fr.timer) ELSE sch
         IN [out |-> IF stp THEN "Closed" ELSE "ok", sched |-> s2]

\* Hub.pause up to `self.loop.switch()` (lines 356-360): arms the Timeout timer
Hub_pause(t, where, e, x, tmo, ps) ==
    /\ pipes' = ps
    /\ ready' = ready
    /\ IF tmo > -1
       THEN /\ now + tmo <= MaxTime
            /\ LET item == [due |-> now + tmo, action |-> t,
                            args |-> FreshId(scheduled)]
               IN \E q2 \in heappush(scheduled.queue, item) :
                    /\ scheduled' = Scheduler_add(scheduled, item, q2)
                    /\ Suspends(t, where,
                                [NoFrame EXCEPT !.end = e, !.item = x,
                                                !.tmo = tmo, !.timer = item],
                                LoopTarget, Unit)
       ELSE /\ scheduled' = scheduled
            /\ Suspends(t, where,
                        [NoFrame EXCEPT !.end = e, !.item = x], LoopTarget, Unit)

\* Hub.spawn(f): the thunk is appended to ready
Hub_spawn(t, u) ==
    /\ Running(t)
    /\ u \in Agents /\ pc[u] = "none"
    /\ Len(ready) < MaxReady
    /\ ready' = Append(ready, ThunkEntry(u))
    /\ pc' = [pc EXCEPT ![u] = "new"]
    /\ UNCHANGED <<cur, msg, frame, scheduled, now, stopped, pipes, middle,
                   calls, queue, res, nextItem, sentLog, recvLog, hist, users,
                   event, value, subscribers, registered,
                   mainAt, stopWaiters, signal>>

\* a switch_to that puts the caller at the head of ready
Hub_switch_to_head(t, fr, target, m) ==
    /\ ready' = <<GreenletEntry(t)>> \o ready
    /\ Suspends(t, "switch", fr, target, m)

\* Hub.switch_to / Hub.throw_to (lines 375-383): the caller is appended to
\* ready, then control goes into target with the value, or the exception, m
Hub_switch_to(t, fr, target, m) ==
    /\ ready' = Append(ready, GreenletEntry(t))
    /\ Suspends(t, "switch", fr, target, m)

\* what the properties observe of a switch_to call: the caller, the head of
\* the ready queue in front of the caller, and (later) the entry the loop
\* pops first after the call
ObserveSwitch(t, target) ==
    [hist EXCEPT !.sw = t,
                 !.swHead = IF ready = <<>> THEN None ELSE Head(ready).task,
                 !.swNext = None]

\* ------------------------------------------------- Sender.send, Recver.recv
\* a send that hands every item over with switch_to, exceptions included
Sender_deliver_switch(t, e, x, ps, sch) ==
    LET o == other(ps, middle, e)
        target == IF o = None THEN None ELSE peak(ps, middle, o)
    IN /\ pipes' = ps
       /\ scheduled' = sch
       /\ UNCHANGED <<sentLog, hist>>
       /\ IF target = None
          THEN /\ Returns(t, "send", "AttributeError", x)
               /\ ready' = ready
          ELSE Hub_switch_to(t, [NoFrame EXCEPT !.end = e, !.item = x], target,
                             Pair(o, x))

\* Sender.send lines 217-220, with the pipes ps and the scheduler sch the
\* call has produced so far: hand the item to the parked receiver
Sender_deliver(t, e, x, ps, sch) ==
    LET o == other(ps, middle, e)
        target == IF o = None THEN None ELSE peak(ps, middle, o)
        fr == [NoFrame EXCEPT !.end = e, !.item = x]
    IN /\ pipes' = ps
       /\ scheduled' = sch
       /\ IF o = None
          THEN \* self.other.peak with self.other None
               /\ Returns(t, "send", "AttributeError", x)
               /\ UNCHANGED <<ready, sentLog, hist>>
          ELSE IF target = None /\ IsDealerRecver(ps, middle, o)
          THEN \* self.other.peak of an empty deque
               /\ Returns(t, "send", "IndexError", x)
               /\ UNCHANGED <<ready, sentLog, hist>>
          ELSE IF target = None
          THEN \* the caller is appended before None.switch fails
               /\ ready' = Append(ready, GreenletEntry(t))
               /\ Returns(t, "send", "AttributeError", x)
               /\ UNCHANGED <<sentLog, hist>>
          ELSE IF IsException(x)
          THEN /\ Hub_switch_to(t, fr, target, Exc("item", x))
               /\ UNCHANGED <<sentLog, hist>>
          ELSE /\ Hub_switch_to(t, fr, target, Pair(o, x))
               /\ sentLog' = Append(sentLog, x)
               /\ hist' = ObserveSwitch(t, target)

\* Sender.send(item, timeout) up to its first suspension (lines 214-220)
Sender_send(t, e, x, tmo) ==
    /\ Calls(t)
    /\ Live(e) /\ IsSender(e)
    /\ nextItem <= MaxItems
    /\ Len(ready) < MaxReady
    /\ x \in {nextItem, -nextItem}
    /\ nextItem' = nextItem + 1
    /\ LET rd == End_ready(pipes, middle, e)
       IN CASE rd \in {"Closed", "Abandoned"} ->
                 /\ Returns(t, "send", rd, x)
                 /\ UNCHANGED <<ready, scheduled, pipes, sentLog, hist>>
            [] rd = "yes" ->
                 Sender_deliver(t, e, x, pipes, scheduled)
            [] rd = "no" ->
                 IF select_ok(pipes, middle, e)
                 THEN /\ Hub_pause(t, "send", e, x, tmo,
                                   End_select(pipes, middle, e, t))
                      /\ UNCHANGED <<sentLog, hist>>
                 ELSE /\ Returns(t, "send", "AssertionError", x)
                      /\ UNCHANGED <<ready, scheduled, pipes, sentLog, hist>>
    /\ users' = [users EXCEPT !.send = @ \cup {t}]
    /\ UNCHANGED <<now, stopped, middle, queue, recvLog, event, value,
                   subscribers, registered,
                   mainAt, stopWaiters, signal>>

\* Recver.recv(timeout) up to its first suspension (lines 274-281)
Recver_recv(t, e, tmo) ==
    /\ Calls(t)
    /\ Live(e) /\ ~IsSender(e)
    /\ LET rd == End_ready(pipes, middle, e)
       IN CASE rd \in {"Closed", "Abandoned"} ->
                 /\ Returns(t, "recv", rd, 0)
                 /\ UNCHANGED <<ready, scheduled, pipes>>
            [] rd = "yes" ->
                 IF select_ok(pipes, middle, e)
                 THEN \* switch directly into the parked sender
                      /\ pipes' = End_select(pipes, middle, e, t)
                      /\ Suspends(t, "recv_sw", [NoFrame EXCEPT !.end = e],
                                  peak(pipes, middle, other(pipes, middle, e)),
                                  Pair(other(pipes, middle, e), 0))
                      /\ UNCHANGED <<ready, scheduled>>
                 ELSE /\ Returns(t, "recv", "AssertionError", 0)
                      /\ UNCHANGED <<ready, scheduled, pipes>>
            [] rd = "no" ->
                 IF select_ok(pipes, middle, e)
                 THEN Hub_pause(t, "recv", e, 0, tmo,
                                End_select(pipes, middle, e, t))
                 ELSE /\ Returns(t, "recv", "AssertionError", 0)
                      /\ UNCHANGED <<ready, scheduled, pipes>>
    /\ users' = [users EXCEPT !.recv = @ \cup {t}]
    /\ UNCHANGED <<now, stopped, middle, queue, nextItem, sentLog, recvLog,
                   hist, event, value, subscribers, registered,
                   mainAt, stopWaiters, signal>>

\* a pause ended without its timer being tombstoned although the timer did
\* not fire: an exception was thrown in, or another call's Timeout arrived
Leaks(fr, m) ==
    /\ fr.tmo > -1
    /\ \/ m.k = "exc"
       \/ m.k = "timeout" /\ m.b # fr.timer.args

ObservePause(t, fr, m, out) ==
    [hist EXCEPT !.leaked = IF Leaks(fr, m) THEN @ \cup {fr.timer} ELSE @,
                 !.pause = IF fr.tmo > -1
                           THEN [by |-> m.k, out |-> out]
                           ELSE @]

\* End.pause after hub.pause comes back (lines 183-186) and, for a sender,
\* the rest of Sender.send
End_pause_resume(t) ==
    /\ cur = t /\ pc[t] \in {"send", "recv"}
    /\ LET fr == frame[t]
           e == fr.end
           hp == Hub_pause_resume(fr, msg, scheduled, stopped)
           \* `_, ret = ...` needs a pair
           out1 == IF hp.out = "ok" /\ msg.k # "pair" THEN "UnpackError" ELSE hp.out
           \* finally: self.unselect()
           out == IF unselect_ok(pipes, middle, e, t) THEN out1
                  ELSE unselect_error(pipes, middle, e)
           ps == End_unselect(pipes, middle, e, t)
       IN IF out = "ok" /\ pc[t] = "send"
          THEN /\ Sender_deliver(t, e, fr.item, ps, hp.sched)
               /\ recvLog' = recvLog
          ELSE /\ pipes' = ps
               /\ scheduled' = hp.sched
               /\ ready' = ready
               /\ sentLog' = sentLog
               /\ hist' = ObservePause(t, fr, msg, hp.out)
               /\ IF out = "ok"
                  THEN /\ Returns(t, "recv", "ok", msg.b)
                       /\ recvLog' = Append(recvLog, msg.b)
                  ELSE /\ Returns(t, pc[t], out,
                                  IF msg.k = "exc" THEN msg.b ELSE fr.item)
                       /\ recvLog' = recvLog
    /\ UNCHANGED <<now, stopped, middle, calls, queue, nextItem, users, event,
                   value, subscribers, registered,
                   mainAt, stopWaiters, signal>>

\* Recver.recv after the direct switch into the sender comes back (277-279)
Recver_recv_resume(t) ==
    /\ cur = t /\ pc[t] = "recv_sw"
    /\ LET e == frame[t].end
       IN IF msg.k = "exc"
          THEN \* raised at the switch: self.unselect() is not reached
               /\ Returns(t, "recv", msg.a, msg.b)
               /\ UNCHANGED <<pipes, recvLog>>
          ELSE IF msg.k # "pair"
          THEN /\ Returns(t, "recv", "UnpackError", 0)
               /\ UNCHANGED <<pipes, recvLog>>
          ELSE IF ~unselect_ok(pipes, middle, e, t)
          THEN /\ Returns(t, "recv", unselect_error(pipes, middle, e), 0)
               /\ UNCHANGED <<pipes, recvLog>>
          ELSE /\ pipes' = End_unselect(pipes, middle, e, t)
               /\ Returns(t, "recv", "ok", msg.b)
               /\ recvLog' = Append(recvLog, msg.b)
    /\ UNCHANGED <<ready, scheduled, now, stopped, middle, calls, queue,
                   nextItem, sentLog, hist, users, event, value, subscribers,
                   registered,
                   mainAt, stopWaiters, signal>>

\* ------------------------------------------------------ other task steps
\* a task calls Hub.pause(timeout) itself (as Event.wait and Value.recv do)
Hub_pause_call(t, tmo) ==
    /\ Calls(t)
    /\ Hub_pause(t, "pause", None, 0, tmo, pipes)
    /\ UNCHANGED <<now, stopped, middle, queue, nextItem, sentLog, recvLog,
                   hist, users, event, value, subscribers, registered,
                   mainAt, stopWaiters, signal>>

Hub_pause_return(t) ==
    /\ cur = t /\ pc[t] = "pause"
    /\ LET hp == Hub_pause_resume(frame[t], msg, scheduled, stopped)
       IN /\ scheduled' = hp.sched
          /\ hist' = ObservePause(t, frame[t], msg, hp.out)
          /\ Returns(t, "pause", hp.out, msg.b)
    /\ UNCHANGED <<ready, now, stopped, pipes, middle, calls, queue, nextItem,
                   sentLog, recvLog, users, event, value, subscribers,
                   registered,
                   mainAt, stopWaiters, signal>>

\* the functions handed to spawn_later, and the task each becomes when run
Fns == {"fa", "fb"}
FnOf(u) == IF u = "a" THEN "fa" ELSE "fb"
TaskOf(f) == IF f = "fa" THEN "a" ELSE "b"

\* Hub.spawn_later(ms, f) (lines 388-389): the function goes on the timer
\* heap
Hub_spawn_later(t, ms, u) ==
    /\ Calls(t)
    /\ u \in {"a", "b"} /\ pc[u] = "none"
    /\ now + ms <= MaxTime + 1
    /\ LET item == [due |-> now + ms, action |-> FnOf(u), args |-> 0]
       IN \E q2 \in heappush(scheduled.queue, item) :
            scheduled' = Scheduler_add(scheduled, item, q2)
    /\ pc' = [pc EXCEPT ![t] = "run", ![u] = "new"]
    /\ frame' = [frame EXCEPT ![t] = NoFrame]
    /\ res' = [task |-> t, op |-> "spawn_later", out |-> "ok"]
    /\ UNCHANGED <<cur, msg, ready, now, stopped, pipes, middle, queue,
                   nextItem, sentLog, recvLog, hist, users, event, value,
                   subscribers, registered, mainAt, stopWaiters, signal>>

\* Hub.sleep(ms) (lines 391-393)
Hub_sleep(t, ms) ==
    /\ Calls(t)
    /\ now + ms <= MaxTime
    /\ LET item == [due |-> now + ms, action |-> t, args |-> 0]
       IN \E q2 \in heappush(scheduled.queue, item) :
            scheduled' = Scheduler_add(scheduled, item, q2)
    /\ Suspends(t, "sleep", NoFrame, LoopTarget, Unit)
    /\ UNCHANGED <<ready, now, stopped, pipes, middle, queue, nextItem,
                   sentLog, recvLog, hist, users, event, value, subscribers,
                   registered,
                   mainAt, stopWaiters, signal>>

Hub_sleep_return(t) ==
    /\ cur = t /\ pc[t] = "sleep"
    /\ Returns(t, "sleep", IF msg.k = "exc" THEN msg.a ELSE "ok", msg.b)
    /\ UNCHANGED <<ready, scheduled, now, stopped, pipes, middle, calls, queue,
                   nextItem, sentLog, recvLog, hist, users, event, value,
                   subscribers, registered,
                   mainAt, stopWaiters, signal>>

\* a task calls Hub.switch_to(u) on a task suspended in a bare pause
Hub_switch_to_call(t, u) ==
    /\ Calls(t)
    /\ u \in Agents /\ u # t /\ pc[u] = "pause"
    /\ Len(ready) < MaxReady
    /\ Hub_switch_to(t, NoFrame, u, Unit)
    /\ hist' = ObserveSwitch(t, u)
    /\ UNCHANGED <<scheduled, now, stopped, pipes, middle, queue, nextItem,
                   sentLog, recvLog, users, event, value, subscribers,
                   registered,
                   mainAt, stopWaiters, signal>>

\* target.switch / target.throw inside switch_to / throw_to comes back: the
\* call of an agent (send, close, switch_to) returns
Hub_switch_to_return(t) ==
    /\ cur = t /\ pc[t] = "switch" /\ t \in Agents
    /\ Returns(t, "switch", IF msg.k = "exc" THEN msg.a ELSE "ok", frame[t].item)
    /\ UNCHANGED <<ready, scheduled, now, stopped, pipes, middle, calls, queue,
                   nextItem, sentLog, recvLog, hist, users, event, value,
                   subscribers, registered,
                   mainAt, stopWaiters, signal>>

\* a close that sets the flag and leaves the parked task where it is
End_close_quiet(t, e) ==
    /\ Calls(t)
    /\ Live(e)
    /\ pipes' = [pipes EXCEPT ![middle[e]].closed = TRUE]
    /\ hist' = [hist EXCEPT !.closeCalled = @ \cup {e}]
    /\ Returns(t, "close", "ok", 0)
    /\ UNCHANGED <<ready, scheduled, now, stopped, middle, queue, nextItem,
                   sentLog, recvLog, users, event, value, subscribers,
                   registered,
                   mainAt, stopWaiters, signal>>

\* End.close (lines 188-191)
End_close(t, e) ==
    /\ Calls(t)
    /\ Live(e)
    /\ Len(ready) < MaxReady
    /\ LET ps == [pipes EXCEPT ![middle[e]].closed = TRUE]
           o == other(ps, middle, e)
       IN /\ pipes' = ps
          /\ hist' = [hist EXCEPT !.closeCalled = @ \cup {e}]
          /\ IF o # None /\ IsDealerRecver(ps, middle, o) /\ occupied(ps, middle, o)
             THEN \* throw_to(deque, Closed): the caller is appended to
                  \* ready, then deque.throw is an AttributeError
                  /\ ready' = Append(ready, GreenletEntry(t))
                  /\ Returns(t, "close", "AttributeError", 0)
             ELSE IF o # None /\ occupied(ps, middle, o)
             THEN Hub_switch_to(t, [NoFrame EXCEPT !.end = e],
                                current(ps, middle, o), Exc("Closed", 0))
             ELSE /\ Returns(t, "close", "ok", 0)
                  /\ ready' = ready
    /\ UNCHANGED <<scheduled, now, stopped, middle, queue, nextItem, sentLog,
                   recvLog, users, event, value, subscribers, registered,
                   mainAt, stopWaiters, signal>>

\* the last strong reference to end e goes away while task t runs: the weak
\* reference of the middle dies and Pipe.on_abandoned (lines 133-141) runs
Pipe_on_abandoned(t, e) ==
    /\ Running(t)
    /\ Live(e) /\ ~Referenced(e)
    /\ Len(ready) < MaxReady
    /\ LET m == middle[e]
           ps == IF IsSender(e) THEN [pipes EXCEPT ![m].sender = None]
                 ELSE [pipes EXCEPT ![m].recver = None]
           remaining == IF ps[m].recver # None THEN ps[m].recver ELSE ps[m].sender
           h == HookOf(m)
       IN /\ pipes' = ps
          /\ IF remaining # None
             THEN /\ ready' = Append(ready, ThunkEntry(h))
                  /\ pc' = [pc EXCEPT ![h] = "new"]
                  /\ frame' = [frame EXCEPT ![h] = [NoFrame EXCEPT !.end = remaining]]
                  /\ hist' = [hist EXCEPT
                                !.abTask = IF ParkedOn(remaining) = {}
                                           THEN None
                                           ELSE current(ps, middle, remaining),
                                !.abCount = 0]
             ELSE UNCHANGED <<ready, pc, frame, hist>>
    /\ UNCHANGED <<cur, msg, scheduled, now, stopped, middle, calls, queue,
                   res, nextItem, sentLog, recvLog, users, event, value,
                   subscribers, registered,
                   mainAt, stopWaiters, signal>>

\* an abandoned hook that ends without throwing
End_abandoned_skip(h) ==
    /\ cur = h /\ pc[h] = "run" /\ h \in Hooks
    /\ pc' = [pc EXCEPT ![h] = "done"]
    /\ cur' = LoopTarget
    /\ msg' = Unit
    /\ UNCHANGED <<frame, res, ready, hist, scheduled, now, stopped, pipes,
                   middle, calls, queue, nextItem, sentLog, recvLog, users,
                   event, value, subscribers, registered,
                   mainAt, stopWaiters, signal>>

\* End.abandoned (lines 172-174), run by the greenlet the hub started for it
End_abandoned(h) ==
    /\ cur = h /\ pc[h] = "run" /\ h \in Hooks
    /\ LET e == frame[h].end
           c == current(pipes, middle, e)
       IN IF c # None
          THEN /\ Hub_switch_to(h, frame[h], c, Exc("Abandoned", 0))
               /\ hist' = [hist EXCEPT !.abCount =
                              IF c = hist.abTask THEN @ + 1 ELSE @]
          ELSE /\ pc' = [pc EXCEPT ![h] = "done"]
               /\ cur' = LoopTarget
               /\ msg' = Unit
               /\ UNCHANGED <<frame, res, ready, hist>>
    /\ UNCHANGED <<scheduled, now, stopped, pipes, middle, calls, queue,
                   nextItem, sentLog, recvLog, users, event, value,
                   subscribers, registered,
                   mainAt, stopWaiters, signal>>

\* throw_to comes back in the hook greenlet, which then finishes
End_abandoned_return(h) ==
    /\ cur = h /\ pc[h] = "switch" /\ h \in Hooks
    /\ pc' = [pc EXCEPT ![h] = "done"]
    /\ cur' = LoopTarget
    /\ msg' = Unit
    /\ UNCHANGED <<frame, ready, scheduled, now, stopped, pipes, middle, calls,
                   queue, res, nextItem, sentLog, recvLog, hist, users, event,
                   value, subscribers, registered,
                   mainAt, stopWaiters, signal>>

\* the function of a task returns: a spawned greenlet dies and its parent,
\* the loop, goes on; when the main greenlet returns the program is over
Finish(t) ==
    /\ Running(t) /\ t \in Agents
    /\ pc' = [pc EXCEPT ![t] = "done"]
    /\ cur' = IF t = Root THEN Exit ELSE LoopTarget
    /\ msg' = Unit
    /\ UNCHANGED <<frame, ready, scheduled, now, stopped, pipes, middle, calls,
                   queue, res, nextItem, sentLog, recvLog, hist, users, event,
                   value, subscribers, registered,
                   mainAt, stopWaiters, signal>>

\* ------------------------------------------------------------- Hub.main
\* the file descriptors the tasks register
Fds == {"fd1", "fd2"}

\* Channel.__init__ (lines 183-188); `on` tells whether the fd is a key of
\* Hub.registered, `polled` whether the fd is registered with epoll, `made`
\* whether register has built the channel, `seen` counts the events epoll
\* reported for the fd, `got` lists the events recv has returned
NoChannel ==
    [on |-> FALSE, polled |-> FALSE, made |-> FALSE, closed |-> FALSE,
     items |-> <<>>, waiters |-> <<>>, seen |-> 0, got |-> <<>>]

\* bool(self.registered): some fd is a key of the dict
Registered == \E fd \in Fds : registered[fd].on

\* a loop that takes the entry appended last
pop_last(q) == [entry |-> q[Len(q)], rest |-> SubSeq(q, 1, Len(q) - 1)]

\* self.ready.popleft() (line 450): the entry taken and the entries left
popleft(q) == [entry |-> Head(q), rest |-> Tail(q)]

\* lines 449-451: pop the head of ready and run it
Hub_main_ready ==
    /\ cur = Loop /\ mainAt = "loop"
    /\ ready # <<>>
    /\ LET entry == popleft(ready).entry
       IN /\ ready' = popleft(ready).rest
          /\ hist' = [hist EXCEPT
                        !.swNext = IF hist.sw # None /\ @ = None
                                   THEN entry.task ELSE @]
          /\ IF entry.thunk
             THEN \* greenlet(task).switch(*a)
                  /\ cur' = entry.task
                  /\ msg' = Unit
                  /\ pc' = [pc EXCEPT ![entry.task] = "run"]
             ELSE \* task.switch(*a)
                  /\ SwitchInto(entry.task, Unit)
                  /\ pc' = pc
    /\ UNCHANGED <<frame, scheduled, now, stopped, pipes, middle, calls, queue,
                   res, nextItem, sentLog, recvLog, users, event, value,
                   subscribers, registered,
                   mainAt, stopWaiters, signal>>

\* a loop that goes on to its timers with entries still in ready
Hub_main_drained_skipped(r) == TRUE

\* lines 449-451: the inner `while self.ready` has run ready to exhaustion
Hub_main_drained(r) == r = <<>>

\* run_task (lines 443-447) on an entry popped off the timer heap: switch
\* into a greenlet with the entry's args, or start a greenlet for a function
run_task(item) ==
    IF item.action \in Fns
    THEN /\ cur' = TaskOf(item.action)
         /\ msg' = Unit
         /\ pc' = [pc EXCEPT ![TaskOf(item.action)] = "run"]
    ELSE /\ SwitchInto(item.action,
                       IF item.args > 0 THEN TimeoutVal(item.args) ELSE Unit)
         /\ pc' = pc

\* lines 453-466: ready is empty and a timer is live; run it at once when
\* overdue, else, with nothing registered, sleep until it is due
Hub_main_scheduled ==
    /\ cur = Loop /\ mainAt = "loop"
    /\ Hub_main_drained(ready)
    /\ scheduled.count > 0
    /\ \/ PruneFaults(scheduled)
       \/ Scheduler_timeout(scheduled, now) < 0
       \/ ~Registered
    /\ IF PruneFaults(scheduled)
       THEN \* IndexError in prune ends the loop
            /\ cur' = Crash
            /\ UNCHANGED <<msg, pc, scheduled, now, hist>>
       ELSE LET p == Scheduler_pop(scheduled)
            IN /\ scheduled' = p.sched
               /\ now' = IF Scheduler_timeout(scheduled, now) < 0
                         THEN now ELSE p.item.due
               /\ run_task(p.item)
               /\ hist' = [hist EXCEPT !.leaked = @ \ {p.item}]
    /\ UNCHANGED <<frame, ready, stopped, pipes, middle, calls, queue, res,
                   nextItem, sentLog, recvLog, users, event, value,
                   subscribers, registered,
                   mainAt, stopWaiters, signal>>

\* Event.set (lines 164-170) on Hub.stopped, from line 472 of Hub.main: the
\* loop switches into the waiter at the head, leaving itself at the tail of
\* ready; with no waiter left set returns, main returns and the loop
\* greenlet is dead, which resumes its parent, the main greenlet
Hub_stopped_set ==
    IF stopWaiters = <<>>
    THEN /\ mainAt' = "done"
         /\ cur' = Root
         /\ msg' = Unit
         /\ UNCHANGED <<ready, stopWaiters>>
    ELSE /\ mainAt' = "set"
         /\ stopWaiters' = Tail(stopWaiters)
         /\ ready' = Append(ready, GreenletEntry(Loop))
         /\ SwitchInto(Head(stopWaiters), Unit)

\* the loop greenlet is resumed inside stopped.set(): the next waiter
Hub_main_set ==
    /\ cur = Loop /\ mainAt = "set"
    /\ Hub_stopped_set
    /\ UNCHANGED <<pc, frame, scheduled, now, stopped, pipes, middle, calls,
                   queue, res, nextItem, sentLog, recvLog, hist, users, event,
                   value, subscribers, registered, signal>>

\* a loop that stops with file descriptors still registered
Hub_main_stop_registered ==
    /\ cur = Loop /\ mainAt = "loop"
    /\ ready = <<>>
    /\ scheduled.count = 0
    /\ stopped' = TRUE
    /\ Hub_stopped_set
    /\ UNCHANGED <<pc, frame, scheduled, now, pipes, middle, calls,
                   queue, res, nextItem, sentLog, recvLog, hist, users, event,
                   value, subscribers, registered, signal>>

\* lines 467-473: nothing ready, nothing scheduled, nothing registered:
\* stopped is set and main returns, which resumes the main greenlet
Hub_main_stop ==
    /\ cur = Loop /\ mainAt = "loop"
    /\ ready = <<>>
    /\ scheduled.count = 0
    /\ ~Registered
    /\ stopped' = TRUE
    /\ Hub_stopped_set
    /\ UNCHANGED <<pc, frame, scheduled, now, pipes, middle, calls,
                   queue, res, nextItem, sentLog, recvLog, hist, users, event,
                   value, subscribers, registered, signal>>

\* ---------------------------------------------------------------- a hub
\* Event.__init__ (lines 150-153): not fired, an empty deque of waiters.
\* `waiters` names the deque object the Event holds now; `deques` is every
\* deque object it has held (set keeps the one it started with, clear makes
\* a new one)
Event_init == [fired |-> FALSE, waiters |-> 1, deques |-> <<<<>>>>]

\* Value.__init__ (lines 627-629): no value attribute, no waiters
Value_init == [has |-> FALSE, value |-> 0, waiters |-> <<>>]

\* Broadcast.__init__ (lines 580-582): an empty list of subscribers.
\* `list` names the list object the Broadcast holds now; `lists` is every
\* list object it has held (send iterates the one it started with)
Broadcast_init == [list |-> 1, lists |-> <<<<>>>>]

\* the channels Signal.subscribe returns in one run
Chans == {"c1", "c2"}

\* Signal.__init__ (lines 255-260): no signalfd, nothing subscribed. One
\* signal number is used, so mapper is the list of channels under that
\* number, and the dict is empty when the list is. `made` holds the channels
\* subscribe has returned, `held` those of them not yet handed to
\* unsubscribe, `sent` counts the signals sent on each
Signal_init ==
    [fd |-> None, count |-> 0, mapper |-> <<>>, reverse_mapper |-> {},
     made |-> {}, held |-> {}, sent |-> [c \in Chans |-> 0]]

\* Hub.__init__ line 341: self.registered = {}
Registered_init == [fd \in Fds |-> NoChannel]

NoHist ==
    [sw |-> None, swHead |-> None, swNext |-> None, leaked |-> {},
     pause |-> [by |-> None, out |-> None],
     closeCalled |-> {}, abTask |-> None, abCount |-> 0,
     taken |-> <<>>, emitted |-> <<>>,
     waited |-> <<<<>>>>, woken |-> <<<<>>>>]

\* Hub.__init__ (lines 335-347) but for self.registered: nothing ready,
\* nothing scheduled, not stopped; the main greenlet is running
Hub_created ==
    /\ cur = Root
    /\ msg = Unit
    /\ frame = [g \in Greenlets |-> NoFrame]
    /\ scheduled = Scheduler_init
    /\ now = 0
    /\ stopped = FALSE
    /\ res = NoRes
    /\ calls = 0
    /\ nextItem = 1
    /\ sentLog = <<>>
    /\ recvLog = <<>>
    /\ users = [send |-> {}, recv |-> {}]
    /\ event = Event_init
    /\ value = Value_init
    /\ mainAt = "loop"
    /\ stopWaiters = <<>>
    /\ signal = Signal_init

\* Hub.__init__ (lines 335-347)
Hub_started ==
    /\ Hub_created
    /\ registered = Registered_init

\* the hub and a Broadcast nothing has subscribed to
Hub_init ==
    /\ Hub_started
    /\ subscribers = Broadcast_init

\* only the main greenlet exists and nothing has been spawned
Tasks_init ==
    /\ pc = [g \in Greenlets |-> IF g = Root THEN "run" ELSE "none"]
    /\ ready = <<>>

\* a hub and one pipe, whose two ends every task may use
Init ==
    /\ Hub_init
    /\ Tasks_init
    /\ hist = NoHist
    /\ pipes = [m \in Pipes |-> IF m = "m1" THEN Pipe_new("s1", "r1") ELSE NoPipe]
    /\ middle = Middle_init
    /\ queue = <<>>

HubStep ==
    \/ Hub_main_ready
    \/ Hub_main_scheduled
    \/ Hub_main_stop

TaskStep(t, others) ==
    \/ \E u \in others : Hub_spawn(t, u)
    \/ \E tmo \in Timeouts : Hub_pause_call(t, tmo)
    \/ Hub_pause_return(t)
    \/ \E ms \in Delays : Hub_sleep(t, ms)
    \/ Hub_sleep_return(t)
    \/ \E u \in others : Hub_switch_to_call(t, u)
    \/ Hub_switch_to_return(t)
    \/ Finish(t)

PipeStep(t) ==
    \/ \E x \in -MaxItems..MaxItems, tmo \in Timeouts : Sender_send(t, "s1", x, tmo)
    \/ \E tmo \in Timeouts : Recver_recv(t, "r1", tmo)
    \/ End_pause_resume(t)
    \/ Recver_recv_resume(t)
    \/ \E e \in {"s1", "r1"} : End_close(t, e)
    \/ \E e \in {"s1", "r1"} : Pipe_on_abandoned(t, e)

HookStep ==
    \/ \E h \in Hooks : End_abandoned(h)
    \/ \E h \in Hooks : End_abandoned_return(h)

\* the tasks of the pipe runs: the main greenlet and one it spawns
PipeAgents == {"root", "a"}

Next ==
    \/ HubStep
    \/ \E t \in PipeAgents : TaskStep(t, PipeAgents)
    \/ \E t \in PipeAgents : PipeStep(t)
    \/ HookStep

Spec == Init /\ [][Next]_vars

\* a hub alone, no pipe built: three tasks that spawn, pause, sleep and
\* switch to one another
HubInit ==
    /\ Hub_init
    /\ Tasks_init
    /\ hist = NoHist
    /\ pipes = [m \in Pipes |-> NoPipe]
    /\ middle = Middle_init
    /\ queue = <<>>

HubNext ==
    \/ HubStep
    \/ \E t \in Agents : TaskStep(t, Agents)

SpecHub == HubInit /\ [][HubNext]_vars

\* ----------------------------------------- Hub.register, Channel, epoll
\* the events epoll reports for one fd in one run
MaxEvents == 2

\* what a Channel of Hub.registered carries: an (fd, event) pair, the events
\* of one fd numbered in the order epoll reports them, or the Closed
\* exception that close sends
epoll_event(ch) == ch.seen + 1
ClosedItem == -1
StopItem == -2

\* lines 396-397: a new Channel under the fd, and the fd in epoll
Channel_new ==
    [NoChannel EXCEPT !.on = TRUE, !.polled = TRUE, !.made = TRUE]

\* Hub.register(fd, mask) (lines 395-398), called once for an fd
Hub_register(t, fd) ==
    /\ Calls(t)
    /\ ~registered[fd].made
    /\ registered' = [registered EXCEPT ![fd] = Channel_new]
    /\ Returns(t, "register", "ok", 0)
    /\ UNCHANGED <<ready, scheduled, now, stopped, pipes, middle, queue, nextItem,
                   sentLog, recvLog, hist, users, event, value, subscribers,
                   mainAt, stopWaiters, signal>>

\* lines 249-251 of Channel.close after its send, then line 404 of
\* Hub.unregister: the channel is closed and the fd leaves the dict
Hub_unregister_done(fd) ==
    [registered EXCEPT ![fd].closed = TRUE, ![fd].on = FALSE]

\* line 402: self.epoll.unregister(fd)
epoll_unregister(reg, fd) == [reg EXCEPT ![fd].polled = FALSE]

\* Hub.unregister(fd) (lines 400-404): the fd leaves epoll, which raises
\* IOError for an fd epoll does not hold; then Channel.close sends Closed,
\* which is queued when no task waits and otherwise thrown into the first
\* waiter, the caller going to the tail of ready in the middle of the call
Hub_unregister(t, fd) ==
    /\ Calls(t)
    /\ IF ~registered[fd].on
       THEN /\ Returns(t, "unregister", "ok", 0)
            /\ UNCHANGED <<ready, registered>>
       ELSE IF ~registered[fd].polled
       THEN /\ Returns(t, "unregister", "IOError", 0)
            /\ UNCHANGED <<ready, registered>>
       ELSE IF registered[fd].closed
       THEN /\ Returns(t, "unregister", "Closed", 0)
            /\ registered' = epoll_unregister(registered, fd)
            /\ ready' = ready
       ELSE IF registered[fd].waiters = <<>>
       THEN /\ registered' =
                 [Hub_unregister_done(fd) EXCEPT
                    ![fd].polled = FALSE,
                    ![fd].items = Append(@, ClosedItem)]
            /\ Returns(t, "unregister", "ok", 0)
            /\ ready' = ready
       ELSE /\ registered' = [epoll_unregister(registered, fd) EXCEPT
                                ![fd].waiters = Tail(@)]
            /\ Hub_switch_to(t, [NoFrame EXCEPT !.end = fd],
                             Head(registered[fd].waiters), Exc("Closed", 0))
    /\ UNCHANGED <<scheduled, now, stopped, pipes, middle, queue, nextItem,
                   sentLog, recvLog, hist, users, event, value, subscribers,
                   mainAt, stopWaiters, signal>>

\* throw_to inside Channel.close comes back: close and unregister finish
Hub_unregister_return(t) ==
    /\ cur = t /\ pc[t] = "switch" /\ frame[t].end \in Fds
    /\ registered' = Hub_unregister_done(frame[t].end)
    /\ Returns(t, "unregister", IF msg.k = "exc" THEN msg.a ELSE "ok", 0)
    /\ UNCHANGED <<ready, scheduled, now, stopped, pipes, middle, calls, queue,
                   nextItem, sentLog, recvLog, hist, users, event, value,
                   subscribers,
                   mainAt, stopWaiters, signal>>

\* Channel.recv(timeout) (lines 218-237) up to its return or its pause
Channel_recv(t, fd, tmo) ==
    /\ Calls(t)
    /\ registered[fd].made
    /\ IF registered[fd].items # <<>>
       THEN /\ registered' =
                 [registered EXCEPT
                    ![fd].items = Tail(@),
                    ![fd].got = IF IsException(Head(registered[fd].items))
                                THEN @ ELSE Append(@, Head(registered[fd].items))]
            /\ Returns(t, "chrecv",
                       IF Head(registered[fd].items) = StopItem THEN "Stop"
                       ELSE IF IsException(Head(registered[fd].items))
                       THEN "Closed" ELSE "ok", 0)
            /\ UNCHANGED <<ready, scheduled, pipes>>
       ELSE /\ registered' = [registered EXCEPT ![fd].waiters = Append(@, t)]
            /\ Hub_pause(t, "chrecv", fd, 0, tmo, pipes)
    /\ UNCHANGED <<now, stopped, middle, queue, nextItem, sentLog, recvLog, hist,
                   users, event, value, subscribers,
                   mainAt, stopWaiters, signal>>

RECURSIVE seq_remove(_, _)
\* list.remove / deque.remove: the sequence without the first x
seq_remove(q, x) ==
    IF q = <<>> THEN q
    ELSE IF Head(q) = x THEN Tail(q)
    ELSE <<Head(q)>> \o seq_remove(Tail(q), x)

\* Channel.recv after hub.pause (lines 231-237): a Timeout takes the task
\* off the waiters; any other exception leaves them alone; a value that is
\* not a (channel, item) pair does not unpack
Channel_recv_resume(t) ==
    /\ cur = t /\ pc[t] = "chrecv"
    /\ LET fr == frame[t]
           hp == Hub_pause_resume(fr, msg, scheduled, stopped)
           waiting == \E i \in 1..Len(registered[fr.end].waiters) :
                         registered[fr.end].waiters[i] = t
       IN /\ scheduled' = hp.sched
          /\ IF hp.out = "Timeout"
             THEN /\ registered' = [registered EXCEPT
                                      ![fr.end].waiters = seq_remove(@, t)]
                  /\ Returns(t, "chrecv",
                             IF waiting THEN "Timeout" ELSE "ValueError", 0)
             ELSE /\ registered' =
                       IF hp.out = "ok" /\ msg.k = "pair"
                       THEN [registered EXCEPT ![fr.end].got = Append(@, msg.b)]
                       ELSE registered
                  /\ Returns(t, "chrecv",
                             IF hp.out = "ok" /\ msg.k # "pair"
                             THEN "TypeError" ELSE hp.out, 0)
    /\ UNCHANGED <<ready, now, stopped, pipes, middle, calls, queue, nextItem,
                   sentLog, recvLog, hist, users, event, value, subscribers,
                   mainAt, stopWaiters, signal>>

\* lines 475-493: ready is empty, something is registered and no timer is
\* overdue: epoll.poll. Either it reports an event for a registered fd,
\* which Channel.send queues or hands to the first waiter (the loop greenlet
\* going to the tail of ready), or the next timer comes due and is run
Hub_main_poll ==
    /\ cur = Loop /\ mainAt = "loop"
    /\ Hub_main_drained(ready)
    /\ Registered
    /\ scheduled.count > 0 =>
          ~PruneFaults(scheduled) /\ Scheduler_timeout(scheduled, now) >= 0
    /\ \/ \E fd \in Fds :
            /\ registered[fd].polled
            /\ registered[fd].seen < MaxEvents
            /\ registered[fd].on
            /\ IF registered[fd].closed
               THEN /\ cur' = Crash
                    /\ UNCHANGED <<msg, pc, ready, registered>>
               ELSE IF registered[fd].waiters = <<>>
               THEN /\ registered' = [registered EXCEPT
                                        ![fd].items =
                                            Append(@, epoll_event(registered[fd])),
                                        ![fd].seen = @ + 1]
                    /\ UNCHANGED <<cur, msg, pc, ready>>
               ELSE /\ registered' = [registered EXCEPT
                                        ![fd].waiters = Tail(@),
                                        ![fd].seen = @ + 1]
                    /\ ready' = Append(ready, GreenletEntry(Loop))
                    /\ pc' = pc
                    /\ SwitchInto(Head(registered[fd].waiters),
                                  Pair(fd, epoll_event(registered[fd])))
            /\ UNCHANGED <<scheduled, now, hist>>
       \/ /\ scheduled.count > 0
          /\ LET p == Scheduler_pop(scheduled)
             IN /\ scheduled' = p.sched
                /\ now' = p.item.due
                /\ run_task(p.item)
                /\ hist' = [hist EXCEPT !.leaked = @ \ {p.item}]
          /\ UNCHANGED <<ready, registered>>
    /\ UNCHANGED <<frame, stopped, pipes, middle, calls, queue, res, nextItem,
                   sentLog, recvLog, users, event, value, subscribers,
                   mainAt, stopWaiters, signal>>

\* a hub whose tasks register file descriptors, wait on their channels,
\* pause and sleep
LoopStep(t) ==
    \/ \E u \in PipeAgents : Hub_spawn(t, u)
    \/ \E tmo \in Timeouts : Hub_pause_call(t, tmo)
    \/ Hub_pause_return(t)
    \/ \E ms \in Delays : Hub_sleep(t, ms)
    \/ Hub_sleep_return(t)
    \/ \E fd \in Fds : Hub_register(t, fd)
    \/ \E fd \in Fds : Hub_unregister(t, fd)
    \/ Hub_unregister_return(t)
    \/ \E fd \in Fds, tmo \in Timeouts : Channel_recv(t, fd, tmo)
    \/ Channel_recv_resume(t)
    \/ Finish(t)

LoopNext ==
    \/ HubStep
    \/ Hub_main_poll
    \/ \E t \in PipeAgents : LoopStep(t)

SpecLoop == HubInit /\ [][LoopNext]_vars

\* three tasks on the channels of two registered file descriptors: the main
\* greenlet has spawned a and b and registered both fds
ChannelInit ==
    /\ Hub_created
    /\ registered = [fd \in Fds |-> Channel_new]
    /\ subscribers = Broadcast_init
    /\ pc = [g \in Greenlets |-> IF g = Root THEN "run"
                                 ELSE IF g \in {"a", "b"} THEN "new"
                                 ELSE "none"]
    /\ ready = <<ThunkEntry("a"), ThunkEntry("b")>>
    /\ hist = NoHist
    /\ pipes = [m \in Pipes |-> NoPipe]
    /\ middle = Middle_init
    /\ queue = <<>>

ChannelStep(t) ==
    \/ \E ms \in Delays : Hub_sleep(t, ms)
    \/ Hub_sleep_return(t)
    \/ \E fd \in Fds : Hub_unregister(t, fd)
    \/ Hub_unregister_return(t)
    \/ \E fd \in Fds, tmo \in Timeouts : Channel_recv(t, fd, tmo)
    \/ Channel_recv_resume(t)
    \/ Finish(t)

ChannelNext ==
    \/ HubStep
    \/ Hub_main_poll
    \/ \E t \in Agents : ChannelStep(t)

SpecChannel == ChannelInit /\ [][ChannelNext]_vars

\* --------------------------------------------------------------- Signal
\* the reader of a signalfd, and the signalfd a reader was started for
ReaderOf(fd) == IF fd = "fd1" THEN "k1" ELSE "k2"
FdOf(k) == IF k = "k1" THEN "fd1" ELSE "fd2"

\* len(self.mapper): the number of signal numbers subscribed to
mapper_len(sg) == IF sg.mapper = <<>> THEN 0 ELSE 1

\* the call `op` of task t inside Signal ends with outcome out; for the
\* reader it is the function `_` that ends: by its return the greenlet is
\* dead and the loop, its parent, runs; an exception goes to the parent
Signal_returns(t, op, out) ==
    IF t \in Readers
    THEN /\ pc' = [pc EXCEPT ![t] = "done"]
         /\ frame' = [frame EXCEPT ![t] = NoFrame]
         /\ cur' = IF out = "ok" THEN LoopTarget ELSE Crash
         /\ msg' = Unit
         /\ res' = res
    ELSE Returns(t, op, out, 0)

\* Signal.stop (lines 283-294) with Hub.unregister (lines 400-404) inside
\* it, on the Signal sg and the channels reg
Signal_stop(t, sg, reg, op) ==
    IF sg.fd = None
    THEN /\ signal' = sg
         /\ registered' = reg
         /\ ready' = ready
         /\ Signal_returns(t, op, "ok")
    ELSE LET fd == sg.fd
         IN /\ signal' = [sg EXCEPT !.fd = None, !.count = 0, !.mapper = <<>>,
                                    !.reverse_mapper = {}]
            /\ IF ~reg[fd].on
               THEN /\ registered' = reg
                    /\ ready' = ready
                    /\ Signal_returns(t, op, "ok")
               ELSE IF ~reg[fd].polled
               THEN /\ registered' = reg
                    /\ ready' = ready
                    /\ Signal_returns(t, op, "IOError")
               ELSE IF reg[fd].waiters = <<>>
               THEN /\ registered' =
                         [reg EXCEPT ![fd].polled = FALSE, ![fd].closed = TRUE,
                                     ![fd].on = FALSE,
                                     ![fd].items = Append(@, ClosedItem)]
                    /\ ready' = ready
                    /\ Signal_returns(t, op, "ok")
               ELSE /\ registered' = [epoll_unregister(reg, fd) EXCEPT
                                        ![fd].waiters = Tail(@)]
                    /\ ready' = Append(ready, GreenletEntry(t))
                    /\ Suspends(t, "sigstop", [NoFrame EXCEPT !.end = fd],
                                Head(reg[fd].waiters), Exc("Closed", 0))

\* throw_to inside Channel.close comes back: close, unregister and
\* Signal.stop finish (lines 250-251, 404, 294)
Signal_stop_return(t) ==
    /\ cur = t /\ pc[t] = "sigstop"
    /\ registered' = Hub_unregister_done(frame[t].end)
    /\ Signal_returns(t, "unsubscribe", IF msg.k = "exc" THEN msg.a ELSE "ok")
    /\ UNCHANGED <<ready, scheduled, now, stopped, pipes, middle, calls, queue,
                   nextItem, sentLog, recvLog, hist, users, event, value,
                   subscribers, mainAt, stopWaiters, signal>>

\* Signal.subscribe(num) (lines 316-322) with reset (296-314) and start
\* (262-281): the first subscription makes a signalfd, registers it and
\* spawns its reader
Signal_subscribe(t) ==
    /\ Calls(t)
    /\ \E c \in Chans \ signal.made :
         LET s1 == [signal EXCEPT !.made = @ \cup {c}, !.held = @ \cup {c},
                                  !.reverse_mapper = @ \cup {c},
                                  !.mapper = Append(@, c)]
         IN IF s1.count = mapper_len(s1) \/ s1.fd # None
            THEN /\ signal' = [s1 EXCEPT !.count = mapper_len(s1)]
                 /\ pc' = [pc EXCEPT ![t] = "run"]
                 /\ UNCHANGED <<ready, registered>>
            ELSE \E fd \in Fds :
                   /\ ~registered[fd].made
                   /\ signal' = [s1 EXCEPT !.count = mapper_len(s1), !.fd = fd]
                   /\ registered' = [registered EXCEPT ![fd] = Channel_new]
                   /\ ready' = Append(ready, ThunkEntry(ReaderOf(fd)))
                   /\ pc' = [pc EXCEPT ![t] = "run", ![ReaderOf(fd)] = "new"]
    /\ frame' = [frame EXCEPT ![t] = NoFrame]
    /\ res' = [task |-> t, op |-> "subscribe", out |-> "ok"]
    /\ UNCHANGED <<cur, msg, scheduled, now, stopped, pipes, middle, queue,
                   nextItem, sentLog, recvLog, hist, users, event, value,
                   subscribers, mainAt, stopWaiters>>

\* Signal.unsubscribe(ch) (lines 324-330) with reset (296-314): a channel
\* that is not in reverse_mapper raises KeyError; taking the last one out
\* of mapper stops the Signal
Signal_unsubscribe(t, c) ==
    /\ Calls(t)
    /\ c \in signal.held
    /\ LET s0 == [signal EXCEPT !.held = @ \ {c}]
           s1 == [s0 EXCEPT !.mapper = seq_remove(@, c),
                            !.reverse_mapper = @ \ {c}]
       IN IF c \notin signal.reverse_mapper
          THEN /\ signal' = s0
               /\ Returns(t, "unsubscribe", "KeyError", 0)
               /\ UNCHANGED <<ready, registered>>
          ELSE IF s1.count = mapper_len(s1)
          THEN /\ signal' = s1
               /\ Returns(t, "unsubscribe", "ok", 0)
               /\ UNCHANGED <<ready, registered>>
          ELSE Signal_stop(t, s1, registered, "unsubscribe")
    /\ UNCHANGED <<scheduled, now, stopped, pipes, middle, queue, nextItem,
                   sentLog, recvLog, hist, users, event, value, subscribers,
                   mainAt, stopWaiters>>

\* lines 276-281 of the reader: the signal read off the fd is sent on every
\* channel of mapper[num], none of which has a waiter; with the number
\* gone from mapper that is a KeyError, which ends the reader and the loop
Signal_deliver(k, reg) ==
    /\ registered' = reg
    /\ ready' = ready
    /\ IF signal.mapper = <<>>
       THEN /\ signal' = signal
            /\ Signal_returns(k, "reader", "KeyError")
       ELSE /\ signal' = [signal EXCEPT
                            !.sent = [c \in Chans |->
                                        IF \E i \in 1..Len(signal.mapper) :
                                              signal.mapper[i] = c
                                        THEN @[c] + 1 ELSE @[c]]]
            /\ cur' = k
            /\ msg' = Unit
            /\ pc' = [pc EXCEPT ![k] = "run"]
            /\ frame' = [frame EXCEPT ![k] = NoFrame]
            /\ res' = res

\* the reader (lines 270-275) at `ready.recv()` on the channel of the fd it
\* was started for: a buffered event is delivered, a buffered Closed or
\* Stop makes it call self.stop() and return, else it parks
Signal_reader_recv(k) ==
    /\ Running(k) /\ k \in Readers
    /\ LET fd == FdOf(k)
           ch == registered[fd]
       IN IF ch.items # <<>>
          THEN LET reg == [registered EXCEPT
                             ![fd].items = Tail(@),
                             ![fd].got = IF IsException(Head(ch.items)) THEN @
                                         ELSE Append(@, Head(ch.items))]
               IN IF IsException(Head(ch.items))
                  THEN Signal_stop(k, signal, reg, "reader")
                  ELSE Signal_deliver(k, reg)
          ELSE /\ registered' = [registered EXCEPT ![fd].waiters = Append(@, k)]
               /\ Suspends(k, "sigrecv", [NoFrame EXCEPT !.end = fd],
                           LoopTarget, Unit)
               /\ UNCHANGED <<ready, signal>>
    /\ UNCHANGED <<scheduled, now, stopped, pipes, middle, calls, queue,
                   nextItem, sentLog, recvLog, hist, users, event, value,
                   subscribers, mainAt, stopWaiters>>

\* the reader resumed in `ready.recv()`: Closed, and Stop its subclass, make
\* it call self.stop() and return; a (channel, item) pair is delivered;
\* anything else does not unpack, which ends the reader and the loop
Signal_reader_resume(k) ==
    /\ cur = k /\ pc[k] = "sigrecv"
    /\ LET hp == Hub_pause_resume(frame[k], msg, scheduled, stopped)
       IN IF hp.out \in {"Closed", "Stop"}
          THEN Signal_stop(k, signal, registered, "reader")
          ELSE IF hp.out = "ok" /\ msg.k = "pair"
          THEN Signal_deliver(k, [registered EXCEPT
                                    ![frame[k].end].got = Append(@, msg.b)])
          ELSE /\ Signal_returns(k, "reader", "TypeError")
               /\ UNCHANGED <<ready, registered, signal>>
    /\ UNCHANGED <<scheduled, now, stopped, pipes, middle, calls, queue,
                   nextItem, sentLog, recvLog, hist, users, event, value,
                   subscribers, mainAt, stopWaiters>>

\* tasks that subscribe to one signal and unsubscribe, and yield by pause
\* and sleep
SignalStep(t) ==
    \/ Signal_subscribe(t)
    \/ \E c \in Chans : Signal_unsubscribe(t, c)
    \/ Signal_stop_return(t)
    \/ \E tmo \in Timeouts : Hub_pause_call(t, tmo)
    \/ Hub_pause_return(t)
    \/ \E ms \in Delays : Hub_sleep(t, ms)
    \/ Hub_sleep_return(t)
    \/ Finish(t)

SignalNext ==
    \/ HubStep
    \/ Hub_main_poll
    \/ \E t \in PipeAgents : SignalStep(t)
    \/ \E t \in PipeAgents : \E u \in PipeAgents : Hub_spawn(t, u)
    \/ \E k \in Readers : Signal_reader_recv(k)
    \/ \E k \in Readers : Signal_reader_resume(k)
    \/ \E k \in Readers : Signal_stop_return(k)

SpecSignal == HubInit /\ [][SignalNext]_vars

\* ------------------------------------------------------------- Hub.stop
\* the delay of a function spawned later
LaterDelays == {2}

\* the orders in which a dict may list the keys S
Orders(S) ==
    {q \in [1..Cardinality(S) -> S] :
        \A i, j \in 1..Cardinality(S) : q[i] = q[j] => i = j}

RECURSIVE Stop_sends(_, _)
\* lines 409-410: ch.send(Stop('stop')) on the channels of fds, in order, up
\* to the first send that raises Closed or switches into a waiter
Stop_sends(reg, fds) ==
    IF fds = <<>>
    THEN [out |-> "done", reg |-> reg, rest |-> <<>>, getter |-> None]
    ELSE LET fd == Head(fds)
         IN IF reg[fd].closed
            THEN [out |-> "Closed", reg |-> reg, rest |-> Tail(fds),
                  getter |-> None]
            ELSE IF reg[fd].waiters = <<>>
            THEN Stop_sends([reg EXCEPT ![fd].items = Append(@, StopItem)],
                            Tail(fds))
            ELSE [out |-> "switch",
                  reg |-> [reg EXCEPT ![fd].waiters = Tail(@)],
                  rest |-> Tail(fds), getter |-> Head(reg[fd].waiters)]

\* Hub.stop() up to the switch of its sleep(1) (line 407)
Hub_stop(t) ==
    /\ Calls(t)
    /\ now + 1 <= MaxTime
    /\ LET item == [due |-> now + 1, action |-> t, args |-> 0]
       IN \E q2 \in heappush(scheduled.queue, item) :
            scheduled' = Scheduler_add(scheduled, item, q2)
    /\ Suspends(t, "stop_sleep", NoFrame, LoopTarget, Unit)
    /\ UNCHANGED <<ready, now, stopped, pipes, middle, queue, nextItem,
                   sentLog, recvLog, hist, users, event, value, subscribers,
                   registered, mainAt, stopWaiters, signal>>

\* lines 412-419: pop the heap and throw Stop into what it holds, the caller
\* going to the tail of ready at each throw; a function has no throw, and a
\* throw into the running greenlet raises there. With the heap empty, wait
\* for stopped
Hub_stop_while(t) ==
    IF scheduled.count > 0
    THEN IF PruneFaults(scheduled)
         THEN /\ Returns(t, "stop", "IndexError", 0)
              /\ UNCHANGED <<ready, scheduled, stopWaiters, hist>>
         ELSE LET p == Scheduler_pop(scheduled)
              IN /\ scheduled' = p.sched
                 /\ ready' = Append(ready, GreenletEntry(t))
                 /\ hist' = [hist EXCEPT !.leaked = @ \ {p.item}]
                 /\ stopWaiters' = stopWaiters
                 /\ IF p.item.action \in Fns
                    THEN Returns(t, "stop", "AttributeError", 0)
                    ELSE IF p.item.action = t
                    THEN Returns(t, "stop", "Stop", 0)
                    ELSE Suspends(t, "stop_throw", NoFrame, p.item.action,
                                  Exc("Stop", 0))
    ELSE /\ UNCHANGED <<ready, scheduled, hist>>
         /\ IF stopped
            THEN /\ Returns(t, "stop", "ok", 0)
                 /\ stopWaiters' = stopWaiters
            ELSE /\ stopWaiters' = Append(stopWaiters, t)
                 /\ Suspends(t, "stop_wait", NoFrame, LoopTarget, Unit)

\* lines 409-410, then on to line 412
Hub_stop_for(t, fds) ==
    LET s == Stop_sends(registered, fds)
    IN /\ registered' = s.reg
       /\ IF s.out = "Closed"
          THEN /\ Returns(t, "stop", "Closed", 0)
               /\ UNCHANGED <<ready, scheduled, stopWaiters, hist>>
          ELSE IF s.out = "switch"
          THEN /\ ready' = Append(ready, GreenletEntry(t))
               /\ Suspends(t, "stop_send", [NoFrame EXCEPT !.watch = s.rest],
                           s.getter, Exc("Stop", 0))
               /\ UNCHANGED <<scheduled, stopWaiters, hist>>
          ELSE Hub_stop_while(t)

\* Hub.stop() resumed in its sleep, in a send to a channel or in a throw
Hub_stop_resume(t) ==
    /\ cur = t /\ pc[t] \in {"stop_sleep", "stop_send", "stop_throw"}
    /\ IF msg.k = "exc"
       THEN /\ Returns(t, "stop", msg.a, 0)
            /\ UNCHANGED <<ready, scheduled, registered, stopWaiters, hist>>
       ELSE IF pc[t] = "stop_throw"
       THEN /\ registered' = registered
            /\ Hub_stop_while(t)
       ELSE \E fds \in IF pc[t] = "stop_send" THEN {frame[t].watch}
                       ELSE Orders({fd \in Fds : registered[fd].on}) :
               Hub_stop_for(t, fds)
    /\ UNCHANGED <<now, stopped, pipes, middle, calls, queue, nextItem,
                   sentLog, recvLog, users, event, value, subscribers,
                   mainAt, signal>>

\* lines 416-419: stopped.wait() comes back; Closed, which pause raises once
\* stopped is set, and Stop, its subclass, are caught
Hub_stop_return(t) ==
    /\ cur = t /\ pc[t] = "stop_wait"
    /\ Returns(t, "stop",
               IF msg.k = "exc" /\ msg.a \notin {"Closed", "Stop"}
               THEN msg.a ELSE "ok", 0)
    /\ UNCHANGED <<ready, scheduled, now, stopped, pipes, middle, calls, queue,
                   nextItem, sentLog, recvLog, hist, users, event, value,
                   subscribers, registered, mainAt, stopWaiters, signal>>

\* the main greenlet stops a hub on which fd1 is registered and task a is
\* spawned; b is a function for spawn_later
StopInit ==
    /\ Hub_created
    /\ registered = [fd \in Fds |-> IF fd = "fd1" THEN Channel_new
                                    ELSE NoChannel]
    /\ subscribers = Broadcast_init
    /\ pc = [g \in Greenlets |-> IF g = Root THEN "run"
                                 ELSE IF g = "a" THEN "new" ELSE "none"]
    /\ ready = <<ThunkEntry("a")>>
    /\ hist = NoHist
    /\ pipes = [m \in Pipes |-> NoPipe]
    /\ middle = Middle_init
    /\ queue = <<>>

StopStep(t) ==
    \/ \E tmo \in Timeouts : Hub_pause_call(t, tmo)
    \/ Hub_pause_return(t)
    \/ \E ms \in Delays : Hub_sleep(t, ms)
    \/ Hub_sleep_return(t)
    \/ \E ms \in LaterDelays : Hub_spawn_later(t, ms, "b")
    \/ Hub_unregister(t, "fd1")
    \/ Hub_unregister_return(t)
    \/ \E tmo \in Timeouts : Channel_recv(t, "fd1", tmo)
    \/ Channel_recv_resume(t)
    \/ Hub_stop_resume(t)
    \/ Hub_stop_return(t)
    \/ Finish(t)

StopNext ==
    \/ HubStep
    \/ Hub_main_poll
    \/ Hub_main_set
    \/ Hub_stop(Root)
    \/ \E t \in Agents : StopStep(t)

SpecStop == StopInit /\ [][StopNext]_vars

\* ---------------------------------------------------------------- Event
\* the calls the tasks of an Event run make, and the deques one Event holds
MaxEventCalls == 6
MaxDeques == 2

\* the running task t starts one more call on the Event
EventCalls(t) == Running(t) /\ calls < MaxEventCalls /\ calls' = calls + 1

\* a loop that takes the waiter appended last
Event_pop(q) == [waiter |-> q[Len(q)], rest |-> SubSeq(q, 1, Len(q) - 1)]

\* waiters.popleft() (line 169)
Event_popleft(q) == [waiter |-> Head(q), rest |-> Tail(q)]

\* Event.wait (lines 158-162); hist.waited keeps, for each deque, the tasks
\* wait appended to it, in order
Event_wait(t) ==
    /\ EventCalls(t)
    /\ IF event.fired
       THEN /\ Returns(t, "wait", "ok", 0)
            /\ UNCHANGED <<event, hist, ready, scheduled, pipes>>
       ELSE /\ event' = [event EXCEPT !.deques[event.waiters] = Append(@, t)]
            /\ hist' = [hist EXCEPT !.waited[event.waiters] = Append(@, t)]
            /\ Hub_pause(t, "wait", None, 0, -1, pipes)
    /\ UNCHANGED <<now, stopped, middle, queue, nextItem, sentLog, recvLog, users,
                   value, subscribers, registered,
                   mainAt, stopWaiters, signal>>

\* hub.pause() of Event.wait comes back (line 162)
Event_wait_return(t) ==
    /\ cur = t /\ pc[t] = "wait"
    /\ Returns(t, "wait", Hub_pause_resume(frame[t], msg, scheduled, stopped).out, 0)
    /\ UNCHANGED <<ready, scheduled, now, stopped, pipes, middle, calls, queue,
                   nextItem, sentLog, recvLog, hist, users, event, value,
                   subscribers, registered,
                   mainAt, stopWaiters, signal>>

\* the loop of Event.set (lines 168-170) over the deque d it isolated, from
\* the Event ev: it returns when d is empty, else pops the first waiter and
\* switches into it; hist.woken keeps, for each deque, the tasks set
\* switched into, in order
Event_set_loop(t, ev, d) ==
    IF ev.deques[d] = <<>>
    THEN /\ event' = ev
         /\ Returns(t, "set", "ok", 0)
         /\ UNCHANGED <<ready, hist>>
    ELSE LET p == Event_popleft(ev.deques[d])
         IN /\ event' = [ev EXCEPT !.deques[d] = p.rest]
            /\ hist' = [hist EXCEPT !.woken[d] = Append(@, p.waiter)]
            /\ ready' = Append(ready, GreenletEntry(t))
            /\ Suspends(t, "set", [NoFrame EXCEPT !.item = d], p.waiter, Unit)

\* Event.set (lines 164-170) up to its first switch_to or its return
Event_set(t) ==
    /\ EventCalls(t)
    /\ Event_set_loop(t, [event EXCEPT !.fired = TRUE], event.waiters)
    /\ UNCHANGED <<scheduled, now, stopped, pipes, middle, queue, nextItem,
                   sentLog, recvLog, users, value, subscribers, registered,
                   mainAt, stopWaiters, signal>>

\* hub.switch_to(waiter) of Event.set comes back: the loop goes on
Event_set_resume(t) ==
    /\ cur = t /\ pc[t] = "set"
    /\ IF msg.k = "exc"
       THEN /\ Returns(t, "set", msg.a, 0)
            /\ UNCHANGED <<event, ready, hist>>
       ELSE Event_set_loop(t, event, frame[t].item)
    /\ UNCHANGED <<scheduled, now, stopped, pipes, middle, calls, queue, nextItem,
                   sentLog, recvLog, users, value, subscribers, registered,
                   mainAt, stopWaiters, signal>>

\* a clear that resets fired and keeps the deque
Event_clear_keep(t) ==
    /\ EventCalls(t)
    /\ event' = [event EXCEPT !.fired = FALSE]
    /\ Returns(t, "clear", "ok", 0)
    /\ UNCHANGED <<ready, scheduled, now, stopped, pipes, middle, queue, nextItem,
                   sentLog, recvLog, users, value, subscribers, registered, hist,
                   mainAt, stopWaiters, signal>>

\* Event.clear (lines 172-176)
Event_clear(t) ==
    /\ EventCalls(t)
    /\ Len(event.deques) < MaxDeques
    /\ event' = [fired |-> FALSE, waiters |-> Len(event.deques) + 1,
                 deques |-> Append(event.deques, <<>>)]
    /\ hist' = [hist EXCEPT !.waited = Append(@, <<>>), !.woken = Append(@, <<>>)]
    /\ Returns(t, "clear", "ok", 0)
    /\ UNCHANGED <<ready, scheduled, now, stopped, pipes, middle, queue, nextItem,
                   sentLog, recvLog, users, value, subscribers, registered,
                   mainAt, stopWaiters, signal>>

\* a hub and one Event that three tasks wait on, set and clear
EventStep(t) ==
    \/ \E u \in Agents : Hub_spawn(t, u)
    \/ \E ms \in Delays : Hub_sleep(t, ms)
    \/ Hub_sleep_return(t)
    \/ Event_wait(t)
    \/ Event_wait_return(t)
    \/ Event_set(t)
    \/ Event_set_resume(t)
    \/ Event_clear(t)
    \/ Finish(t)

EventNext ==
    \/ HubStep
    \/ \E t \in Agents : EventStep(t)

SpecEvent == HubInit /\ [][EventNext]_vars

\* ------------------------------------------------------ a Scheduler alone
\* the functions handed to add, the delays (ms) and the items they make
Functions == {"f", "g"}
SchedDelays == {0, 1}
SchedItems == [due : 0..(MaxTime + 1), action : Functions, args : {0}]

RECURSIVE SumOver(_, _)
SumOver(f, S) ==
    IF S = {} THEN 0
    ELSE LET x == CHOOSE y \in S : TRUE IN f[x] + SumOver(f, S \ {x})

\* a Scheduler driven directly: hist.live counts, for each item, the add
\* calls that returned it and were neither passed to remove nor popped since;
\* hist.ran records that pop returned an item none of whose adds was live
SchedInit ==
    /\ Hub_init
    /\ Tasks_init
    /\ pipes = [m \in Pipes |-> NoPipe]
    /\ middle = Middle_init
    /\ queue = <<>>
    /\ hist = [live |-> [i \in SchedItems |-> 0], ran |-> FALSE]

SchedFrame ==
    UNCHANGED <<cur, msg, pc, frame, ready, stopped, pipes, middle, queue, res,
                nextItem, sentLog, recvLog, users, event, value, subscribers,
                registered,
                   mainAt, stopWaiters, signal>>

\* item = scheduled.add(delay, action)
Sched_add(delay, action) ==
    /\ calls < MaxCalls
    /\ calls' = calls + 1
    /\ LET item == [due |-> now + delay, action |-> action, args |-> 0]
       IN /\ \E q2 \in heappush(scheduled.queue, item) :
                scheduled' = Scheduler_add(scheduled, item, q2)
          /\ hist' = [hist EXCEPT !.live[item] = @ + 1]
    /\ now' = now
    /\ SchedFrame

\* scheduled.remove(item), for an item add returned that is still live
Sched_remove(item) ==
    /\ hist.live[item] > 0
    /\ scheduled' = Scheduler_remove(scheduled, item)
    /\ hist' = [hist EXCEPT !.live[item] = @ - 1]
    /\ UNCHANGED <<now, calls,
                   mainAt, stopWaiters, signal>>
    /\ SchedFrame

\* scheduled.pop(), called as Hub.main calls it: only while len(scheduled) > 0
Sched_pop ==
    /\ scheduled.count > 0
    /\ IF PruneFaults(scheduled)
       THEN \* prune empties the heap, then queue[0] raises IndexError
            /\ scheduled' = [scheduled EXCEPT
                               !.queue = <<>>,
                               !.removed = @ \ { scheduled.queue[i] :
                                                   i \in 1..Len(scheduled.queue) }]
            /\ hist' = hist
       ELSE LET p == Scheduler_pop(scheduled)
            IN /\ scheduled' = p.sched
               /\ hist' = IF hist.live[p.item] > 0
                          THEN [hist EXCEPT !.live[p.item] = @ - 1]
                          ELSE [hist EXCEPT !.ran = TRUE]
    /\ UNCHANGED <<now, calls,
                   mainAt, stopWaiters, signal>>
    /\ SchedFrame

\* time.time() moves on
Sched_tick ==
    /\ now < MaxTime
    /\ now' = now + 1
    /\ UNCHANGED <<scheduled, calls, hist,
                   mainAt, stopWaiters, signal>>
    /\ SchedFrame

SchedNext ==
    \/ \E d \in SchedDelays, f \in Functions : Sched_add(d, f)
    \/ \E item \in SchedItems : Sched_remove(item)
    \/ Sched_pop
    \/ Sched_tick

SpecSched == SchedInit /\ [][SchedNext]_vars

\* ------------------------------------------------------------------ Queue
\* the capacity the Queue is built with (assert size > 0)
QueueSize == 1

\* the arguments of Queue.main (line 482): upstream.recver, downstream.sender
upstream == "r1"
downstream == "s2"

\* a buffer that is never seen as full
has_room_always(q, size) == TRUE

\* line 455: len(queue) < size
has_room(q, size) == Len(q) < size

\* a buffer whose head is sent on and kept
Queue_peek(q) == [item |-> Head(q), rest |-> q]

\* line 467: item = queue.popleft()
Queue_take(q) == [item |-> Head(q), rest |-> Tail(q)]

\* lines 445-448: `if queue: ... else:`, the buffer is empty
Queue_drained(q) == q = <<>>

\* lines 444-456: the ends Queue.main watches in this round
Queue_watch(ps, q) ==
    (IF q # <<>> THEN <<downstream>> ELSE <<>>)
    \o (IF ~halted(ps, middle, upstream) /\ has_room(q, QueueSize)
        THEN <<upstream>> ELSE <<>>)

\* hub.select(watch), first part: the first watched end that is ready
Hub_select_ready(ps, watch) ==
    LET yes == { i \in 1..Len(watch) : End_ready(ps, middle, watch[i]) = "yes" }
    IN IF yes = {} THEN None
       ELSE watch[CHOOSE i \in yes : \A j \in yes : i <= j]

\* hub.select(watch), second part: every watched end is selected by the
\* caller before it pauses, and unselected when the pause is over
Hub_select_all_ok(ps, watch) ==
    \A i \in 1..Len(watch) : select_ok(ps, middle, watch[i])

RECURSIVE Hub_select_all(_, _, _)
Hub_select_all(ps, watch, t) ==
    IF watch = <<>> THEN ps
    ELSE Hub_select_all(End_select(ps, middle, Head(watch), t), Tail(watch), t)

Hub_unselect_all_ok(ps, watch, t) ==
    \A i \in 1..Len(watch) : unselect_ok(ps, middle, watch[i], t)

RECURSIVE Hub_unselect_all(_, _, _)
Hub_unselect_all(ps, watch, t) ==
    IF watch = <<>> THEN ps
    ELSE Hub_unselect_all(End_unselect(ps, middle, Head(watch), t), Tail(watch), t)

\* Queue.main dies of an exception it does not catch: the exception reaches
\* the parent of its greenlet, the hub loop
Queue_raises ==
    /\ cur' = Crash
    /\ msg' = Unit
    /\ pc' = [pc EXCEPT ![QueueTask] = "done"]
    /\ UNCHANGED <<frame, ready, scheduled, pipes, queue,
                   mainAt, stopWaiters, signal>>

\* Queue.main returns: its greenlet is over and with it the last reference to
\* upstream.recver (the upstream Pair was a local of Queue), so
\* Pipe.on_abandoned runs for the upstream middle and the hub is given the
\* abandoned hook of the caller's sender.  downstream.sender stays referenced:
\* the connect closure stored on upstream.sender (lines 476-480) holds the
\* downstream Pair for as long as the caller holds upstream.sender
Queue_returns(ps, rdy) ==
    LET drop == [ps EXCEPT !["m1"].recver = None]
        h1 == IF ps["m1"].sender # None THEN <<ThunkEntry("h1")>> ELSE <<>>
    IN /\ pipes' = drop
       /\ ready' = rdy \o h1
       /\ pc' = [g \in Greenlets |->
                    IF g = QueueTask THEN "done"
                    ELSE IF g = "h1" /\ h1 # <<>> THEN "new"
                    ELSE pc[g]]
       /\ frame' = [frame EXCEPT
                      ![QueueTask] = NoFrame,
                      !["h1"] = [NoFrame EXCEPT !.end = ps["m1"].sender]]
       /\ cur' = LoopTarget
       /\ msg' = Unit
       /\ UNCHANGED <<scheduled, queue>>

\* End.close (lines 188-191) on end e, called by Queue.main, which returns
\* after it
Queue_closes(e) ==
    LET ps == [pipes EXCEPT ![middle[e]].closed = TRUE]
        o == other(ps, middle, e)
    IN IF o # None /\ current(ps, middle, o) # None
       THEN \* throw_to: Queue.main returns when it is run again
            /\ pipes' = ps
            /\ Hub_switch_to(QueueTask, [NoFrame EXCEPT !.end = e],
                             current(ps, middle, o), Exc("Closed", 0))
            /\ UNCHANGED <<scheduled, queue>>
       ELSE Queue_returns(ps, ready)

\* a shutdown that closes the end that is halted already
Queue_close_halted(e) ==
    Queue_closes(IF e = upstream THEN downstream ELSE upstream)

\* lines 441 / 450: upstream.close() when downstream is halted,
\* downstream.close() when upstream is halted and the buffer empty
Queue_close(e) == Queue_closes(e)

\* line 468: downstream.send(item), with the pipes ps and the buffer rest
\* left by the round so far
Queue_send(ps, item, rest) ==
    LET rd == End_ready(ps, middle, downstream)
    IN /\ queue' = rest
       /\ IF rd = "yes"
          THEN /\ pipes' = ps
               /\ scheduled' = scheduled
               /\ Hub_switch_to(QueueTask,
                                [NoFrame EXCEPT !.end = downstream, !.item = item],
                                peak(ps, middle, other(ps, middle, downstream)),
                                Pair(other(ps, middle, downstream), item))
          ELSE IF rd = "no" /\ select_ok(ps, middle, downstream)
          THEN \* End.pause: wait for a receiver
               /\ pipes' = End_select(ps, middle, downstream, QueueTask)
               /\ UNCHANGED <<ready, scheduled>>
               /\ Suspends(QueueTask, "q_send",
                           [NoFrame EXCEPT !.end = downstream, !.item = item],
                           LoopTarget, Unit)
          ELSE \* Closed, Abandoned or AssertionError, outside the try
               /\ cur' = Crash
               /\ msg' = Unit
               /\ pc' = [pc EXCEPT ![QueueTask] = "done"]
               /\ UNCHANGED <<frame, ready, scheduled, pipes, res>>

\* lines 461-468: what Queue.main does with the (ch, item) select returned
Queue_fired(ps, ch, item) ==
    IF ch = upstream
    THEN /\ queue' = Append(queue, item)
         /\ pipes' = ps
         /\ cur' = QueueTask
         /\ msg' = Unit
         /\ pc' = [pc EXCEPT ![QueueTask] = "run"]
         /\ frame' = [frame EXCEPT ![QueueTask] = NoFrame]
         /\ UNCHANGED <<ready, scheduled, res>>
    ELSE Queue_send(ps, Queue_take(queue).item, Queue_take(queue).rest)

\* one round of the loop of Queue.main (lines 438-459), up to the point
\* where the task gives up control
Queue_main ==
    /\ cur = QueueTask /\ pc[QueueTask] = "run"
    /\ LET watch == Queue_watch(pipes, queue)
           fired == Hub_select_ready(pipes, watch)
       IN IF halted(pipes, middle, downstream)
          THEN /\ Queue_close(upstream)
               /\ res' = res
          ELSE IF Queue_drained(queue) /\ halted(pipes, middle, upstream)
          THEN /\ Queue_close(downstream)
               /\ res' = res
          ELSE IF fired = downstream
          THEN \* select returns (downstream, None) at once
               Queue_fired(pipes, downstream, 0)
          ELSE IF fired = upstream
          THEN \* select returns (upstream, upstream.recv()): Recver.recv
               \* switches into the parked sender
               IF select_ok(pipes, middle, upstream)
               THEN /\ pipes' = End_select(pipes, middle, upstream, QueueTask)
                    /\ Suspends(QueueTask, "q_recv",
                                [NoFrame EXCEPT !.end = upstream],
                                peak(pipes, middle, other(pipes, middle, upstream)),
                                Pair(other(pipes, middle, upstream), 0))
                    /\ UNCHANGED <<ready, scheduled, queue>>
               ELSE /\ Queue_raises
                    /\ res' = res
          ELSE IF Hub_select_all_ok(pipes, watch)
          THEN \* select parks on every watched end and pauses
               /\ pipes' = Hub_select_all(pipes, watch, QueueTask)
               /\ Suspends(QueueTask, "q_select",
                           [NoFrame EXCEPT !.watch = watch], LoopTarget, Unit)
               /\ UNCHANGED <<ready, scheduled, queue>>
          ELSE /\ Queue_raises
               /\ res' = res
    /\ UNCHANGED <<now, stopped, middle, calls, nextItem, sentLog, recvLog,
                   users, hist, event, value, subscribers, registered,
                   mainAt, stopWaiters, signal>>

\* Queue.main is run again where it was suspended: in the pause of select,
\* in the recv of select, in downstream.send, or in a close
Queue_resume ==
    /\ cur = QueueTask
    /\ pc[QueueTask] \in {"q_select", "q_recv", "q_send", "switch"}
    /\ LET fr == frame[QueueTask]
           hp == Hub_pause_resume(fr, msg, scheduled, stopped)
       IN CASE pc[QueueTask] = "q_select" ->
                 \* finally: unselect every watched end; Halt: continue
                 LET ps == Hub_unselect_all(pipes, fr.watch, QueueTask)
                 IN IF ~Hub_unselect_all_ok(pipes, fr.watch, QueueTask)
                    THEN /\ Queue_raises
                         /\ res' = res
                    ELSE IF hp.out \in {"Closed", "Abandoned"}
                    THEN /\ pipes' = ps
                         /\ cur' = QueueTask
                         /\ msg' = Unit
                         /\ pc' = [pc EXCEPT ![QueueTask] = "run"]
                         /\ frame' = [frame EXCEPT ![QueueTask] = NoFrame]
                         /\ UNCHANGED <<ready, scheduled, queue, res>>
                    ELSE IF hp.out # "ok" \/ msg.k # "pair"
                    THEN /\ Queue_raises
                         /\ res' = res
                    ELSE Queue_fired(ps, msg.a, msg.b)
            [] pc[QueueTask] = "q_recv" ->
                 \* Recver.recv lines 277-279, then queue.append(item)
                 IF msg.k # "pair" \/ ~unselect_ok(pipes, middle, upstream, QueueTask)
                 THEN /\ Queue_raises
                      /\ res' = res
                 ELSE Queue_fired(End_unselect(pipes, middle, upstream, QueueTask),
                                  upstream, msg.b)
            [] pc[QueueTask] = "q_send" ->
                 \* End.pause of downstream.send comes back
                 IF hp.out # "ok" \/ msg.k # "pair"
                    \/ ~unselect_ok(pipes, middle, downstream, QueueTask)
                 THEN /\ Queue_raises
                      /\ res' = res
                 ELSE Queue_send(End_unselect(pipes, middle, downstream, QueueTask),
                                 fr.item, queue)
            [] pc[QueueTask] = "switch" ->
                 IF msg.k = "exc"
                 THEN /\ Queue_raises
                      /\ res' = res
                 ELSE IF fr.item = 0
                 THEN \* the close is done: return
                      /\ Queue_returns(pipes, ready)
                      /\ res' = res
                 ELSE \* downstream.send is done: next round
                      /\ cur' = QueueTask
                      /\ msg' = Unit
                      /\ pc' = [pc EXCEPT ![QueueTask] = "run"]
                      /\ frame' = [frame EXCEPT ![QueueTask] = NoFrame]
                      /\ UNCHANGED <<ready, scheduled, pipes, queue, res>>
    /\ UNCHANGED <<now, stopped, middle, calls, nextItem, sentLog, recvLog,
                   users, hist, event, value, subscribers, registered,
                   mainAt, stopWaiters, signal>>

\* Queue(hub, size) (lines 470-483): two pipes, and main spawned on the
\* upstream recver and the downstream sender; the caller keeps the upstream
\* sender and the downstream recver
QueueInit ==
    /\ Hub_init
    /\ hist = NoHist
    /\ pc = [g \in Greenlets |->
                IF g = Root THEN "run" ELSE IF g = QueueTask THEN "new" ELSE "none"]
    /\ ready = <<ThunkEntry(QueueTask)>>
    /\ pipes = [m \in Pipes |->
                  IF m = "m1" THEN Pipe_new("s1", "r1") ELSE Pipe_new("s2", "r2")]
    /\ middle = Middle_init
    /\ queue = <<>>

QueueUserStep(t) ==
    \/ \E u \in PipeAgents : Hub_spawn(t, u)
    \/ Hub_switch_to_return(t)
    \/ Finish(t)
    \/ \E x \in 1..MaxItems, tmo \in Timeouts : Sender_send(t, "s1", x, tmo)
    \/ \E tmo \in Timeouts : Recver_recv(t, "r2", tmo)
    \/ End_pause_resume(t)
    \/ Recver_recv_resume(t)
    \/ \E e \in {"s1", "r2"} : End_close(t, e)

QueueNext ==
    \/ HubStep
    \/ \E t \in PipeAgents : QueueUserStep(t)
    \/ Queue_main
    \/ Queue_resume
    \/ \E h \in Hooks : End_abandoned(h)

SpecQueue == QueueInit /\ [][QueueNext]_vars

\* ----------------------------------------------------------------- Dealer
\* the tasks that receive from the Dealer; the main greenlet is its sender
DealerRecvers == {"a", "b"}

\* hub.dealer(): one Dealer (lines 524-528), no task on it yet
DealerInit ==
    /\ Hub_init
    /\ Tasks_init
    /\ hist = NoHist
    /\ pipes = [m \in Pipes |-> IF m = "m1" THEN Dealer_new("s1", "r1") ELSE NoPipe]
    /\ middle = Middle_init
    /\ queue = <<>>

DealerStep(t) ==
    \/ End_pause_resume(t)
    \/ Recver_recv_resume(t)
    \/ Hub_switch_to_return(t)
    \/ Finish(t)

DealerNext ==
    \/ HubStep
    \/ \E u \in DealerRecvers : Hub_spawn(Root, u)
    \/ \E x \in -MaxItems..MaxItems, tmo \in Timeouts : Sender_send(Root, "s1", x, tmo)
    \/ \E t \in DealerRecvers, tmo \in Timeouts : Recver_recv(t, "r1", tmo)
    \/ \E t \in Agents : DealerStep(t)

SpecDealer == DealerInit /\ [][DealerNext]_vars

\* ------------------------------------------ Recver.pipe, Sender.connect
\* an end whose `middle` attribute has been deleted
Detached == "detached"

\* hub.pipe(), which Recver.pipe calls (line 341): a new Pipe on this hub
Hub_pipe(s, r) == Pipe_new(s, r)

\* a pipe built next to r1 and left unspliced
Recver_pipe_unspliced(ps, mid, r1, s2, r2) ==
    [pipes |-> [ps EXCEPT ![mid[r2]] = Hub_pipe(s2, r2)], middle |-> mid]

\* Recver.pipe(target) with a callable target (lines 336-357): a new pipe
\* s2 - m2 - r2 is spliced in between r1 and its sender s1, giving
\* s1 -> m2 <- r2 and s2 -> m1 <- r1; the parked slots stay with the middles
Recver_pipe(ps, mid, r1, s2, r2) ==
    LET s1 == other(ps, mid, r1)
        m1 == mid[r1]
        m2 == mid[r2]
        built == [ps EXCEPT ![m2] = Hub_pipe(s2, r2)]
    IN [pipes |-> [built EXCEPT ![m2].sender = s1, ![m1].sender = s2],
        middle |-> [mid EXCEPT ![s1] = m2, ![s2] = m1]]

\* Sender.connect(recver) (lines 229-245), self being s2 of s2 - m2 - r2 and
\* recver being r1 of s1 - m1 - r1: r2 takes the place of r1 on m1 and
\* brings the parked slot of m2; m2, r1 and s2 are left without links
Sender_connect(ps, mid, s2, r1) ==
    LET m1 == mid[r1]
        m2 == mid[s2]
        r2 == other(ps, mid, s2)
    IN [pipes |-> [ps EXCEPT ![m2].sender = None, ![m2].recver = None,
                             ![m1].recver = r2,
                             ![m1].recver_current = ps[m2].recver_current],
        middle |-> [mid EXCEPT ![r2] = m1, ![r1] = Detached, ![s2] = Detached]]

\* send or recv on an end whose middle was deleted by connect: self.ready
\* reads self.middle, an AttributeError
Detached_call(t, e) ==
    /\ Calls(t)
    /\ middle[e] = Detached
    /\ Returns(t, IF IsSender(e) THEN "send" ELSE "recv", "AttributeError", 0)
    /\ UNCHANGED <<ready, scheduled, now, stopped, pipes, middle, queue, nextItem,
                   sentLog, recvLog, users, hist, event, value, subscribers,
                   registered,
                   mainAt, stopWaiters, signal>>

\* the function of the docstring of Recver.map (lines 368-369)
double(i) == 2 * i

\* the exception instances a function given to map may raise: a Filter, and
\* one of another class
FilterExc == -98
OtherExc == -99

\* what a function given to map does with an item: it returns a value, or
\* raises Filter, or raises another exception
FnOutcomes == {"returns", "Filter", "raises"}

\* lines 380-383: the item map's transform sends downstream for item i when
\* f does o: f(item), or, `except Exception, e`, the exception f raised,
\* Filter being an Exception like any other
Fn_apply(o, i) ==
    IF o = "returns" THEN double(i)
    ELSE IF o = "Filter" THEN FilterExc
    ELSE OtherExc

\* the transform dies of an exception it does not catch, which reaches the
\* parent of its greenlet, the hub loop
Fn_raises ==
    /\ cur' = Crash
    /\ msg' = Unit
    /\ pc' = [pc EXCEPT ![FnTask] = "done"]
    /\ UNCHANGED <<frame, ready, scheduled, pipes, res, hist,
                   mainAt, stopWaiters, signal>>

\* the iteration over the recver ends on Halt and the transform returns; its
\* two ends keep each other alive (r2.downstream = s2, s2.upstream = r2)
Fn_returns(ps) ==
    /\ cur' = LoopTarget
    /\ msg' = Unit
    /\ pc' = [pc EXCEPT ![FnTask] = "done"]
    /\ frame' = [frame EXCEPT ![FnTask] = NoFrame]
    /\ pipes' = ps
    /\ UNCHANGED <<ready, scheduled, res, hist,
                   mainAt, stopWaiters, signal>>

\* sender.send(f(item)) of the transform (line 381; a Halt raised here is
\* caught and sent again at line 383, where it is raised for good), with the
\* pipes ps left by the recv before it
Fn_send(ps, item, taken) ==
    LET e == "s2"
        rd == End_ready(ps, middle, e)
        fr == [NoFrame EXCEPT !.end = e, !.item = item]
    IN IF rd = "yes" /\ peak(ps, middle, other(ps, middle, e)) # None
       THEN /\ pipes' = ps
            /\ scheduled' = scheduled
            /\ Hub_switch_to(FnTask, fr, peak(ps, middle, other(ps, middle, e)),
                             IF IsException(item) THEN Exc("item", item)
                             ELSE Pair(other(ps, middle, e), item))
            /\ hist' = [hist EXCEPT !.taken = taken, !.emitted = Append(@, item)]
       ELSE IF rd = "no" /\ select_ok(ps, middle, e)
       THEN /\ Hub_pause(FnTask, "send", e, item, -1, End_select(ps, middle, e, FnTask))
            /\ hist' = [hist EXCEPT !.taken = taken]
       ELSE /\ cur' = Crash
            /\ msg' = Unit
            /\ pc' = [pc EXCEPT ![FnTask] = "done"]
            /\ pipes' = ps
            /\ hist' = [hist EXCEPT !.taken = taken]
            /\ UNCHANGED <<frame, ready, scheduled, res>>

\* the transform of Recver.map (lines 377-383), `for item in recver:` up to
\* the point where it gives up control: Recver.__iter__ calls recver.recv()
Fn_main ==
    /\ cur = FnTask /\ pc[FnTask] = "run"
    /\ LET e == "r2"
           rd == End_ready(pipes, middle, e)
       IN IF rd \in {"Closed", "Abandoned"}
          THEN Fn_returns(pipes)
          ELSE IF ~select_ok(pipes, middle, e)
          THEN Fn_raises
          ELSE IF rd = "yes"
          THEN /\ pipes' = End_select(pipes, middle, e, FnTask)
               /\ Suspends(FnTask, "recv_sw", [NoFrame EXCEPT !.end = e],
                           peak(pipes, middle, other(pipes, middle, e)),
                           Pair(other(pipes, middle, e), 0))
               /\ UNCHANGED <<ready, scheduled, hist>>
          ELSE /\ Hub_pause(FnTask, "recv", e, 0, -1,
                            End_select(pipes, middle, e, FnTask))
               /\ hist' = hist
    /\ UNCHANGED <<now, stopped, middle, calls, queue, nextItem, sentLog, recvLog,
                   users, event, value, subscribers, registered,
                   mainAt, stopWaiters, signal>>

\* the transform is run again where it was suspended: in the pause of recv,
\* in the direct switch of recv, in the pause of send, or after the
\* switch_to of send; o is what the function does with the item it is given
Fn_resumes(o) ==
    /\ cur = FnTask
    /\ pc[FnTask] \in {"recv", "recv_sw", "send", "switch"}
    /\ LET fr == frame[FnTask]
           hp == Hub_pause_resume(fr, msg, scheduled, stopped)
           ps == End_unselect(pipes, middle, fr.end, FnTask)
           unsel == unselect_ok(pipes, middle, fr.end, FnTask)
       IN CASE pc[FnTask] = "recv" ->
                 IF ~unsel THEN Fn_raises
                 ELSE IF hp.out \in {"Closed", "Abandoned"} THEN Fn_returns(ps)
                 ELSE IF hp.out # "ok" \/ msg.k # "pair"
                 THEN /\ Fn_raises
                 ELSE Fn_send(ps, Fn_apply(o, msg.b), Append(hist.taken, msg.b))
            [] pc[FnTask] = "recv_sw" ->
                 IF msg.k = "exc" /\ msg.a \in {"Closed", "Abandoned"}
                 THEN Fn_returns(pipes)
                 ELSE IF msg.k # "pair" \/ ~unsel THEN Fn_raises
                 ELSE Fn_send(ps, Fn_apply(o, msg.b), Append(hist.taken, msg.b))
            [] pc[FnTask] = "send" ->
                 IF hp.out # "ok" \/ msg.k # "pair" \/ ~unsel THEN Fn_raises
                 ELSE Fn_send(ps, fr.item, hist.taken)
            [] pc[FnTask] = "switch" ->
                 IF msg.k = "exc" THEN Fn_raises
                 ELSE /\ cur' = FnTask
                      /\ msg' = Unit
                      /\ pc' = [pc EXCEPT ![FnTask] = "run"]
                      /\ frame' = [frame EXCEPT ![FnTask] = NoFrame]
                      /\ UNCHANGED <<ready, scheduled, pipes, res, hist>>
    /\ UNCHANGED <<now, stopped, middle, calls, queue, nextItem, sentLog, recvLog,
                   users, event, value, subscribers, registered,
                   mainAt, stopWaiters, signal>>

\* the transform of map(double), whose function always returns
Fn_resume == Fn_resumes("returns")

\* the pipes s1 - m1 - r1 and s3 - m3 - r3 after r1.pipe(fn).pipe(s3), done
\* with no task parked: s1 -> m2 <- r2, fn(r2, s2) spawned, s2 -> m1 <- r3
Chain_built ==
    LET fresh == [m \in Pipes |-> IF m = "m1" THEN Pipe_new("s1", "r1")
                                  ELSE IF m = "m3" THEN Pipe_new("s3", "r3")
                                  ELSE NoPipe]
        piped == Recver_pipe(fresh, Middle_init, "r1", "s2", "r2")
    IN Sender_connect(piped.pipes, piped.middle, "s3", "r1")

ChainInit ==
    /\ Hub_init
    /\ hist = NoHist
    /\ pc = [g \in Greenlets |->
                IF g = Root THEN "run" ELSE IF g = FnTask THEN "new" ELSE "none"]
    /\ ready = <<ThunkEntry(FnTask)>>
    /\ pipes = Chain_built.pipes
    /\ middle = Chain_built.middle
    /\ queue = <<>>

ChainUserStep(t) ==
    \/ \E u \in PipeAgents : Hub_spawn(t, u)
    \/ Hub_switch_to_return(t)
    \/ Finish(t)
    \/ \E x \in -MaxItems..MaxItems, tmo \in Timeouts : Sender_send(t, "s1", x, tmo)
    \/ \E tmo \in Timeouts : Recver_recv(t, "r3", tmo)
    \/ End_pause_resume(t)
    \/ Recver_recv_resume(t)
    \/ \E e \in {"s1", "r3"} : End_close(t, e)
    \/ \E e \in {"r1", "s3"} : Detached_call(t, e)

ChainNext ==
    \/ HubStep
    \/ \E t \in PipeAgents : ChainUserStep(t)
    \/ Fn_main
    \/ Fn_resume

SpecChain == ChainInit /\ [][ChainNext]_vars

\* the same chain with r1.map(f) for a function f that may raise
MapNext ==
    \/ HubStep
    \/ \E t \in PipeAgents : ChainUserStep(t)
    \/ Fn_main
    \/ \E o \in FnOutcomes : Fn_resumes(o)

SpecMap == ChainInit /\ [][MapNext]_vars

\* -------------------------------------------- rewiring while tasks are parked
\* r1.pipe(fn) called by the running task t (lines 336-358): s1 = self.other
\* reads self.middle, an AttributeError on a recver a connect has detached;
\* else the new pipe is spliced in and fn is spawned on its two ends
Recver_pipe_call(t) ==
    /\ Calls(t)
    /\ pipes["m2"] = NoPipe /\ pc[FnTask] = "none"
    /\ IF middle["r1"] = Detached
       THEN /\ Returns(t, "pipe", "AttributeError", 0)
            /\ UNCHANGED <<pipes, middle, ready>>
       ELSE /\ Len(ready) < MaxReady
            /\ LET spliced == Recver_pipe(pipes, middle, "r1", "s2", "r2")
               IN /\ pipes' = spliced.pipes
                  /\ middle' = spliced.middle
            /\ ready' = Append(ready, ThunkEntry(FnTask))
            /\ cur' = t
            /\ msg' = Unit
            /\ pc' = [pc EXCEPT ![FnTask] = "new"]
            /\ frame' = frame
            /\ res' = [task |-> t, op |-> "pipe", out |-> "ok"]
    /\ UNCHANGED <<scheduled, now, stopped, queue, nextItem, sentLog, recvLog,
                   users, hist, event, value, subscribers, registered,
                   mainAt, stopWaiters, signal>>

\* r1.pipe(s3), which is s3.connect(r1) (lines 360-361, 229-251), called by
\* the running task t while both ends still have their middles
Sender_connect_call(t) ==
    /\ Calls(t)
    /\ middle["s3"] # Detached /\ middle["r1"] # Detached
    /\ LET wired == Sender_connect(pipes, middle, "s3", "r1")
       IN /\ pipes' = wired.pipes
          /\ middle' = wired.middle
    /\ Returns(t, "connect", "ok", 0)
    /\ UNCHANGED <<ready, scheduled, now, stopped, queue, nextItem, sentLog,
                   recvLog, users, hist, event, value, subscribers, registered,
                   mainAt, stopWaiters, signal>>

\* a task parked in End.pause on an end a connect has detached is resumed:
\* hub.pause ends as ever, then `finally: self.unselect()` reads
\* self.current, that is self.middle, and raises AttributeError
Detached_resume(t) ==
    /\ cur = t /\ pc[t] \in {"send", "recv"}
    /\ middle[frame[t].end] = Detached
    /\ scheduled' = Hub_pause_resume(frame[t], msg, scheduled, stopped).sched
    /\ Returns(t, pc[t], "AttributeError", 0)
    /\ UNCHANGED <<ready, now, stopped, pipes, middle, calls, queue, nextItem,
                   sentLog, recvLog, users, hist, event, value, subscribers,
                   registered, mainAt, stopWaiters, signal>>

\* a hub with the pipes s1 - m1 - r1 and s3 - m3 - r3, nothing spliced yet
RewireInit ==
    /\ Hub_init
    /\ Tasks_init
    /\ hist = NoHist
    /\ pipes = [m \in Pipes |-> IF m = "m1" THEN Pipe_new("s1", "r1")
                                ELSE IF m = "m3" THEN Pipe_new("s3", "r3")
                                ELSE NoPipe]
    /\ middle = Middle_init
    /\ queue = <<>>

\* the tasks send plain items on s1 and receive on r1 and r3, and any of
\* them may rewire at any moment, also while another is parked
RewireStep(t) ==
    \/ \E u \in Agents : Hub_spawn(t, u)
    \/ Hub_switch_to_return(t)
    \/ Finish(t)
    \/ \E x \in 1..MaxItems, tmo \in Timeouts : Sender_send(t, "s1", x, tmo)
    \/ \E e \in {"r1", "r3"}, tmo \in Timeouts : Recver_recv(t, e, tmo)
    \/ (pc[t] \in {"send", "recv"} /\ middle[frame[t].end] # Detached
          /\ End_pause_resume(t))
    \/ Recver_recv_resume(t)
    \/ Detached_resume(t)
    \/ Detached_call(t, "r1")
    \/ Recver_pipe_call(t)
    \/ Sender_connect_call(t)

RewireNext ==
    \/ HubStep
    \/ \E t \in Agents : RewireStep(t)
    \/ Fn_main
    \/ Fn_resume

SpecRewire == RewireInit /\ [][RewireNext]_vars

\* ------------------------------------------------------------ Broadcast
\* the calls the tasks of a Broadcast run make
MaxBroadcastCalls == 5

\* the running task t starts one more call of a Broadcast run
BroadcastCalls(t) == Running(t) /\ calls < MaxBroadcastCalls /\ calls' = calls + 1

\* the ends hub.pipe() returns when it builds middle m
SenderOf(m) == CHOOSE e \in Senders : Middle_init[e] = m
RecverOf(m) == CHOOSE e \in Recvers : Middle_init[e] = m

\* the middles in the order in which hub.pipe() builds them
PipeOrder == <<"m1", "m2", "m3">>

\* the list object self.subscribers names
Subscribers(sb) == sb.lists[sb.list]

\* Broadcast.subscribe (lines 597-600) on middle m: a new pipe whose sender
\* is appended to the list the Broadcast holds
Broadcast_subscribed(st, m) ==
    [pipes |-> [st.pipes EXCEPT ![m] = Hub_pipe(SenderOf(m), RecverOf(m))],
     subscribers |-> [st.subscribers EXCEPT
                        !.lists[st.subscribers.list] = Append(@, SenderOf(m))]]

Broadcast_subscribe(t) ==
    /\ BroadcastCalls(t)
    /\ \E i \in 1..Len(PipeOrder) :
         /\ pipes[PipeOrder[i]] = NoPipe
         /\ \A k \in 1..(i - 1) : pipes[PipeOrder[k]] # NoPipe
         /\ LET m == PipeOrder[i]
                st == Broadcast_subscribed(
                         [pipes |-> pipes, subscribers |-> subscribers], m)
            IN /\ pipes' = st.pipes
               /\ subscribers' = st.subscribers
    /\ Returns(t, "subscribe", "ok", 0)
    /\ UNCHANGED <<ready, scheduled, now, stopped, middle, queue, nextItem,
                   sentLog, recvLog, hist, users, event, value, registered,
                   mainAt, stopWaiters, signal>>

RECURSIVE Broadcast_visit(_, _, _)
\* the for loop of Broadcast.send (lines 586-592) over list L from position
\* i, up to the first subscriber that is ready: subscribers whose ready
\* raises Halt are appended to to_remove, those not ready are passed over
Broadcast_visit(L, i, rem) ==
    IF i > Len(L) THEN [stop |-> 0, to_remove |-> rem]
    ELSE LET rd == End_ready(pipes, middle, L[i])
         IN IF rd = "yes" THEN [stop |-> i, to_remove |-> rem]
            ELSE IF rd = "no" THEN Broadcast_visit(L, i + 1, rem)
            ELSE Broadcast_visit(L, i + 1, Append(rem, L[i]))

\* a filter that drops nothing
Broadcast_keep_all(L, rem) == L

\* [x for x in self.subscribers if x not in to_remove] (lines 594-595)
Broadcast_filter(L, rem) ==
    LET gone == { rem[k] : k \in 1..Len(rem) }
        keeps(x) == x \notin gone
    IN SelectSeq(L, keeps)

\* Broadcast.send(item) from position i of the list `over` it iterates, with
\* the to_remove it has so far: either it reaches a ready subscriber and
\* Sender.send switches into the task parked on its recver, or the loop
\* ends and the halted subscribers are filtered out of the current list
Broadcast_send_from(t, item, over, i, rem) ==
    LET L == subscribers.lists[over]
        v == Broadcast_visit(L, i, rem)
    IN IF v.stop = 0
       THEN /\ subscribers' =
                 IF v.to_remove = <<>> THEN subscribers
                 ELSE [list |-> Len(subscribers.lists) + 1,
                       lists |-> Append(subscribers.lists,
                                        Broadcast_filter(Subscribers(subscribers),
                                                         v.to_remove))]
            /\ Returns(t, "bsend", "ok", 0)
            /\ UNCHANGED <<ready, sentLog>>
       ELSE LET e == L[v.stop]
                o == other(pipes, middle, e)
            IN /\ subscribers' = subscribers
               /\ ready' = Append(ready, GreenletEntry(t))
               /\ sentLog' = Append(sentLog, item)
               /\ Suspends(t, "bsend",
                           [NoFrame EXCEPT !.end = e, !.item = item,
                                           !.over = over, !.index = v.stop,
                                           !.to_remove = v.to_remove],
                           peak(pipes, middle, o), Pair(o, item))

\* Broadcast.send(item) (lines 584-595) up to its first switch or its return
Broadcast_send(t) ==
    /\ BroadcastCalls(t)
    /\ nextItem <= MaxItems
    /\ nextItem' = nextItem + 1
    /\ Broadcast_send_from(t, nextItem, subscribers.list, 1, <<>>)
    /\ UNCHANGED <<scheduled, now, stopped, pipes, middle, queue, recvLog, hist,
                   users, event, value, registered,
                   mainAt, stopWaiters, signal>>

\* subscriber.send(item) comes back (line 589): a Halt raised in it puts the
\* subscriber on to_remove, any other exception leaves send, and otherwise
\* the loop goes on with the next subscriber
Broadcast_send_resume(t) ==
    /\ cur = t /\ pc[t] = "bsend"
    /\ LET fr == frame[t]
       IN IF msg.k = "exc" /\ msg.a \notin {"Closed", "Abandoned"}
          THEN /\ Returns(t, "bsend", msg.a, 0)
               /\ UNCHANGED <<ready, sentLog, subscribers>>
          ELSE Broadcast_send_from(t, fr.item, fr.over, fr.index + 1,
                                   IF msg.k = "exc"
                                   THEN Append(fr.to_remove, fr.end)
                                   ELSE fr.to_remove)
    /\ UNCHANGED <<scheduled, now, stopped, pipes, middle, calls, queue, nextItem,
                   recvLog, hist, users, event, value, registered,
                   mainAt, stopWaiters, signal>>

\* a Broadcast with two subscriptions, whose recvers the tasks use
BroadcastInit ==
    /\ Hub_started
    /\ Tasks_init
    /\ hist = NoHist
    /\ middle = Middle_init
    /\ queue = <<>>
    /\ LET st0 == [pipes |-> [m \in Pipes |-> NoPipe],
                   subscribers |-> Broadcast_init]
           st2 == Broadcast_subscribed(Broadcast_subscribed(st0, "m1"), "m2")
       IN /\ pipes = st2.pipes
          /\ subscribers = st2.subscribers

BroadcastStep(t) ==
    \/ \E u \in Agents : Hub_spawn(t, u)
    \/ \E ms \in Delays : Hub_sleep(t, ms)
    \/ Hub_sleep_return(t)
    \/ Broadcast_subscribe(t)
    \/ Broadcast_send(t)
    \/ Broadcast_send_resume(t)
    \/ \E r \in Recvers : Recver_recv(t, r, -1)
    \/ End_pause_resume(t)
    \/ End_close(t, "r1")
    \/ Pipe_on_abandoned(t, "r2")
    \/ Finish(t)

\* the tasks close the first recver and drop the second; no task is ever
\* parked on a sender, so close and the abandoned hook throw nothing
BroadcastNext ==
    \/ HubStep
    \/ \E t \in Agents : BroadcastStep(t)
    \/ \E h \in Hooks : End_abandoned(h)

SpecBroadcast == BroadcastInit /\ [][BroadcastNext]_vars

\* ---------------------------------------------------------------- Value
\* the calls the tasks of a Value run make
MaxValueCalls == 5

\* the running task t starts one more call on the Value
ValueCalls(t) == Running(t) /\ calls < MaxValueCalls /\ calls' = calls + 1

\* the for loop of Value.send (lines 633-634) from position i of
\* self.waiters: it switches into the waiter at i, or is past the end and
\* returns; `over` keeps the length the list had when send was called
Value_send_from(t, item, over, i) ==
    IF i > Len(value.waiters)
    THEN /\ Returns(t, "vsend", "ok", item)
         /\ ready' = ready
    ELSE /\ ready' = Append(ready, GreenletEntry(t))
         /\ Suspends(t, "vsend",
                     [NoFrame EXCEPT !.item = item, !.over = over, !.index = i],
                     value.waiters[i], Unit)

\* Value.send(item) (lines 631-634) up to its first switch_to or its return
Value_send(t) ==
    /\ ValueCalls(t)
    /\ nextItem <= MaxItems
    /\ nextItem' = nextItem + 1
    /\ value' = [value EXCEPT !.has = TRUE, !.value = nextItem]
    /\ Value_send_from(t, nextItem, Len(value.waiters), 1)
    /\ UNCHANGED <<scheduled, now, stopped, pipes, middle, queue, sentLog,
                   recvLog, hist, users, event, subscribers, registered,
                   mainAt, stopWaiters, signal>>

\* hub.switch_to(waiter) of Value.send comes back: the loop goes on
Value_send_resume(t) ==
    /\ cur = t /\ pc[t] = "vsend"
    /\ IF msg.k = "exc"
       THEN /\ Returns(t, "vsend", msg.a, 0)
            /\ ready' = ready
       ELSE Value_send_from(t, frame[t].item, frame[t].over, frame[t].index + 1)
    /\ UNCHANGED <<scheduled, now, stopped, pipes, middle, calls, queue, nextItem,
                   sentLog, recvLog, hist, users, event, value, subscribers,
                   registered,
                   mainAt, stopWaiters, signal>>

\* `return self.value` (line 640): the value the Value holds now, an
\* AttributeError when it holds none; recvLog keeps the values returned
Value_returns(t) ==
    IF value.has
    THEN /\ Returns(t, "vrecv", "ok", value.value)
         /\ recvLog' = Append(recvLog, value.value)
    ELSE /\ Returns(t, "vrecv", "AttributeError", 0)
         /\ recvLog' = recvLog

\* Value.recv(timeout) (lines 636-640) up to its pause or its return
Value_recv(t, tmo) ==
    /\ ValueCalls(t)
    /\ IF value.has
       THEN /\ Value_returns(t)
            /\ UNCHANGED <<value, ready, scheduled, pipes>>
       ELSE /\ value' = [value EXCEPT !.waiters = Append(@, t)]
            /\ Hub_pause(t, "vrecv", None, 0, tmo, pipes)
            /\ recvLog' = recvLog
    /\ UNCHANGED <<now, stopped, middle, queue, nextItem, sentLog, hist, users,
                   event, subscribers, registered,
                   mainAt, stopWaiters, signal>>

\* hub.pause of Value.recv comes back (lines 639-640): an exception leaves
\* recv, the task staying in self.waiters; else recv returns self.value
Value_recv_resume(t) ==
    /\ cur = t /\ pc[t] = "vrecv"
    /\ LET hp == Hub_pause_resume(frame[t], msg, scheduled, stopped)
       IN /\ scheduled' = hp.sched
          /\ IF hp.out = "ok"
             THEN Value_returns(t)
             ELSE /\ Returns(t, "vrecv", hp.out, 0)
                  /\ recvLog' = recvLog
    /\ UNCHANGED <<ready, now, stopped, pipes, middle, calls, queue, nextItem,
                   sentLog, hist, users, event, value, subscribers, registered,
                   mainAt, stopWaiters, signal>>

\* Value.clear (lines 646-647): delattr(self, 'value')
Value_clear(t) ==
    /\ ValueCalls(t)
    /\ IF value.has
       THEN /\ value' = [value EXCEPT !.has = FALSE, !.value = 0]
            /\ Returns(t, "vclear", "ok", 0)
       ELSE /\ value' = value
            /\ Returns(t, "vclear", "AttributeError", 0)
    /\ UNCHANGED <<ready, scheduled, now, stopped, pipes, middle, queue, nextItem,
                   sentLog, recvLog, hist, users, event, subscribers, registered,
                   mainAt, stopWaiters, signal>>

\* a hub and one Value that three tasks send to, receive from and clear
ValueStep(t) ==
    \/ \E u \in Agents : Hub_spawn(t, u)
    \/ Value_send(t)
    \/ Value_send_resume(t)
    \/ \E tmo \in Timeouts : Value_recv(t, tmo)
    \/ Value_recv_resume(t)
    \/ Value_clear(t)
    \/ Finish(t)

ValueNext ==
    \/ HubStep
    \/ \E t \in Agents : ValueStep(t)

SpecValue == HubInit /\ [][ValueNext]_vars

\* ================================================================ claims
\* the pipe is used as the claims on a basic pipe assume: at most one task
\* sends and at most one other task receives
OneSenderOneRecver ==
    /\ Cardinality(users.send) <= 1
    /\ Cardinality(users.recv) <= 1
    /\ users.send \cap users.recv = {}

\* C1: on an unbuffered pipe with one sending and one receiving task, while
\* the hub runs and no item is on its way into the receiver, the sequence of
\* items returned by recv equals the sequence of items handed over by send:
\* nothing is lost, duplicated or reordered.
C1_RecvEqualsSent ==
    (OneSenderOneRecver /\ ~stopped /\ msg.k # "pair") => recvLog = sentLog

\* C2: each side of the pipe has at most one task parked on it, and that
\* task is the one its slot names; a task that calls send (recv) while the
\* slot of the end is taken is refused by End.select and is not parked.
C2_OneParkedPerSide ==
    \A e \in Ends :
        /\ Cardinality(ParkedOn(e)) <= 1
        /\ ParkedOn(e) \subseteq {current(pipes, middle, e)}

\* a second send was refused while the first sender is still parked
C2_SecondRefused ==
    /\ res.op = "send" /\ res.out = "AssertionError"
    /\ ParkedOn("s1") # {}
    /\ res.task \notin ParkedOn("s1")

\* C3: the ready queue is first in, first out: a step either leaves ready
\* alone, or appends one entry at its tail, or is the loop taking the entry
\* at its head and running that entry's greenlet.
C3_ReadyFIFO ==
    [][ \/ ready' = ready
        \/ /\ Len(ready') = Len(ready) + 1
           /\ SubSeq(ready', 1, Len(ready)) = ready
        \/ /\ cur = Loop /\ ready # <<>>
           /\ ready' = Tail(ready)
           /\ cur' = Head(ready).task ]_vars

\* the loop is about to choose among several waiting entries, a spawned
\* function and a re-enqueued task among them
C3_SeveralQueued ==
    /\ cur = Loop /\ Len(ready) >= 2
    /\ \E i, j \in 1..Len(ready) : ready[i].thunk /\ ~ready[j].thunk

\* C4 (as stated): after switch_to the caller is the first entry the loop
\* runs once the target has yielded, whatever ready held at the call.
C4_CallerRunsNext ==
    hist.swNext # None => hist.swNext = hist.sw

\* C4 (amended): switch_to appends the caller at the tail of ready and runs
\* the target at once; the first entry the loop runs afterwards is the entry
\* that was at the head of ready at the call, and is the caller only when
\* ready was empty at the call.
C4_CallerAtTail ==
    /\ [](hist.swNext # None =>
            hist.swNext = IF hist.swHead = None THEN hist.sw ELSE hist.swHead)
    /\ [][\A t \in Agents :
            (pc[t] = "run" /\ pc'[t] = "switch") =>
                /\ cur' \in Agents \ {t}
                /\ ready' = Append(ready, GreenletEntry(t))]_vars

\* the loop ran another entry first, after a switch_to made with ready not empty
C4_OtherRanFirst ==
    /\ hist.swNext # None
    /\ hist.swHead # None
    /\ hist.swNext # hist.sw

\* the Timeout timers of the heap that have not been tombstoned
LiveTimers ==
    { scheduled.queue[i] : i \in 1..Len(scheduled.queue) } \ scheduled.removed

\* C5 (as stated): a pause(timeout >= 0) resumed by a value returns that
\* value, and one resumed by its timer raises Timeout.
C5_ValueReturned ==
    /\ hist.pause.by \in {"unit", "pair"} => hist.pause.out = "ok"
    /\ hist.pause.by = "timeout" => hist.pause.out = "Timeout"

\* C5 (amended): a pause(timeout >= 0) resumed by a value returns it while
\* the hub runs and raises Closed once the hub has stopped; one resumed by
\* its timer raises Timeout; every Timeout timer still live in the heap
\* belongs to a call that is still paused, or to one that was ended by an
\* exception or by the Timeout of another call, so the Timeout of a call
\* that was resumed by a value is never switched into the task later.
C5_ValueOrTimeout ==
    /\ hist.pause.by \in {"unit", "pair"} =>
          /\ hist.pause.out \in {"ok", "Closed"}
          /\ hist.pause.out = "Closed" => stopped
          /\ ~stopped => hist.pause.out = "ok"
    /\ hist.pause.by = "timeout" => hist.pause.out = "Timeout"
    /\ \A item \in LiveTimers :
          (item.args > 0 /\ item \notin hist.leaked) =>
              /\ pc[item.action] \in {"pause", "send", "recv"}
              /\ frame[item.action].timer = item

\* a timed pause returned a value and its timer is a tombstone in the heap
C5_ValueFirst ==
    /\ hist.pause.by = "unit" /\ hist.pause.out = "ok"
    /\ res.op = "pause" /\ res.out = "ok"
    /\ \E item \in scheduled.removed : item.action = res.task /\ item.args > 0

\* C6: under any sequence of add, remove and pop, pop never returns an item
\* whose every add has been cancelled by remove, and len(scheduled) is the
\* number of items added and neither removed nor popped.
C6_LenCountsLive ==
    /\ ~hist.ran
    /\ scheduled.count = SumOver(hist.live, SchedItems)

\* C7: when an end is dropped while a task is parked on the other end, the
\* hook greenlet the hub runs for the live end throws Abandoned into that
\* task: never twice, and once by the time the hook has finished.
C7_AbandonedOnce ==
    /\ hist.abCount <= 1
    /\ \A m \in Pipes :
          (hist.abTask # None /\ pc[HookOf(m)] = "done") => hist.abCount = 1
    /\ \A h \in Hooks :
          (/\ pc[h] = "switch" /\ hist.abTask # None
           /\ cur = hist.abTask /\ pc[cur] \in {"send", "recv"}) =>
              msg = Exc("Abandoned", 0)

\* the parked task's call has raised Abandoned and the hook has finished
C7_Delivered ==
    /\ hist.abTask # None /\ hist.abCount = 1
    /\ pc["h1"] = "done"
    /\ res.task = hist.abTask /\ res.out = "Abandoned"

\* the task really parked on the other end of e, if any
ParkedOther(e) ==
    LET o == other(pipes, middle, e)
    IN IF o = None THEN {} ELSE ParkedOn(o) \cap {current(pipes, middle, o)}

\* C8: a close() on one end while a task is parked on the other end switches
\* straight into that task with Closed, the closer going to the tail of
\* ready: no ready entry and no timer runs in between, and the parked call
\* raises Closed.
C8_ClosedAtOnce ==
    /\ [][\A e \in Ends :
            (e \in hist'.closeCalled /\ e \notin hist.closeCalled) =>
                \A c \in ParkedOther(e) :
                    /\ cur' = c
                    /\ msg' = Exc("Closed", 0)
                    /\ ready' = Append(ready, GreenletEntry(cur))]_vars
    /\ [][(cur \in Agents /\ pc[cur] \in {"send", "recv"}
             /\ msg = Exc("Closed", 0)) =>
                (res'.task = cur /\ res'.out = "Closed")]_vars

\* a parked call has just raised Closed because the other end was closed
C8_ParkedGotClosed ==
    /\ res.op \in {"send", "recv"} /\ res.out = "Closed" /\ cur = res.task
    /\ ready # <<>>
    /\ pc[Head(ready).task] = "switch"
    /\ frame[Head(ready).task].end \in hist.closeCalled

\* the ends Queue.main is parked on in select
Watched ==
    IF pc[QueueTask] = "q_select"
    THEN { frame[QueueTask].watch[i] : i \in 1..Len(frame[QueueTask].watch) }
    ELSE {}

\* C9: the buffer of a Queue of capacity QueueSize never holds more than
\* QueueSize items, and Queue.main watches upstream, or takes an item from
\* it, only while the buffer holds fewer.
C9_BufferBound ==
    /\ Len(queue) <= QueueSize
    /\ upstream \in Watched => Len(queue) < QueueSize
    /\ pc[QueueTask] = "q_recv" => Len(queue) < QueueSize

\* the buffer is full, a sender waits, and upstream is not watched
C9_FullNotWatched ==
    /\ Len(queue) = QueueSize
    /\ Watched = {downstream}
    /\ ParkedOn("s1") # {}

\* the item on its way from a sender into Queue.main, and the item on its
\* way from Queue.main into a receiver
FlightUp ==
    IF cur = QueueTask /\ msg.k = "pair" /\ msg.a = upstream
    THEN <<msg.b>> ELSE <<>>

FlightDown ==
    IF cur \in Agents /\ msg.k = "pair" /\ msg.a = "r2"
    THEN <<msg.b>> ELSE <<>>

DealerDeque == pipes["m1"].recver_current

\* the sender hands an item over in this step
DealerDelivers == pc[Root] # "switch" /\ pc'[Root] = "switch"

\* C11: the receivers in the Dealer's deque are the tasks parked in recv, in
\* the order in which they parked, and every send is delivered to the one at
\* the head, the receiver parked longest
C11_HeadServed ==
    /\ [](\A i \in 1..Len(DealerDeque) : DealerDeque[i] \in ParkedOn("r1"))
    /\ [](\A t \in ParkedOn("r1") : \E i \in 1..Len(DealerDeque) : DealerDeque[i] = t)
    /\ [][\/ DealerDeque' = DealerDeque
          \/ \E t \in DealerRecvers : DealerDeque' = Append(DealerDeque, t)
          \/ \E t \in DealerRecvers : DealerDeque' = deque_remove(DealerDeque, t)]_vars
    /\ [][DealerDelivers =>
            /\ DealerDeque # <<>>
            /\ cur' = Head(DealerDeque)
            /\ cur' \in ParkedOn("r1")]_vars

\* C12: after r1.pipe(fn).pipe(s3), done with no task parked, the items the
\* transform takes are the items handed over on the original sender s1, in
\* order; what it emits is fn of what it took, in order; what recv on r3
\* returns is what it emitted, in order; and nothing is parked on or linked
\* to the discarded ends r1 and s3 or the discarded middle m3
C12_PassesThroughFn ==
    LET pre(s, t) == Len(s) <= Len(t) /\ \A i \in 1..Len(s) : s[i] = t[i]
    IN /\ pre(hist.taken, sentLog)
       /\ Len(hist.emitted) <= Len(hist.taken)
       /\ \A i \in 1..Len(hist.emitted) : hist.emitted[i] = double(hist.taken[i])
       /\ pre(recvLog, hist.emitted)
       /\ \A g \in Greenlets : frame[g].end \notin {"r1", "s3"}
       /\ pipes["m3"].sender_current = None /\ pipes["m3"].recver_current = None
       /\ ~Live("r1") /\ ~Live("s3")

\* two items went through the transform and came out of r3 in order
C12_TwoThrough ==
    /\ Len(sentLog) = 2 /\ sentLog[1] # sentLog[2]
    /\ recvLog = <<double(sentLog[1]), double(sentLog[2])>>

\* the loop is at the top of an iteration with nothing to run, no live
\* timer and no file descriptor registered
NothingLeft == ready = <<>> /\ LiveTimers = {} /\ ~Registered

\* C13: the main loop sets stopped and returns (the main greenlet runs
\* next) only from a state where ready is empty, no timer is live and no
\* file descriptor is registered, and whenever the loop takes a step from
\* such a state that step is the stop; stopped is never reset
C13_StopsExactlyWhenIdle ==
    [][/\ (stopped' # stopped) =>
            cur = Loop /\ NothingLeft /\ stopped' /\ cur' = Root
       /\ (cur = Loop /\ NothingLeft) => (stopped' /\ cur' = Root)]_vars

\* the loop has stopped in a run that registered a file descriptor, waited
\* on its channel and unregistered it
C13_StoppedAfterUnregister ==
    /\ stopped
    /\ \E fd \in Fds : registered[fd].made /\ registered[fd].seen > 0

\* C14: a send that hands over an exception item throws it into the task
\* it finds parked on the receiving end, and a recv resumed by a thrown item
\* raises it and returns nothing, whether it was parked in its pause
\* (receiver first) or in its direct switch into the parked sender (sender
\* first)
C14_ExceptionItemRaised ==
    [][\A t \in PipeAgents :
         /\ (/\ pc[t] # "switch" /\ pc'[t] = "switch"
             /\ frame'[t].end = "s1" /\ IsException(frame'[t].item))
            => msg' = Exc("item", frame'[t].item)
         /\ (cur = t /\ pc[t] \in {"recv", "recv_sw"} /\ msg.k = "exc"
               /\ msg.a = "item")
            => /\ res' = [task |-> t, op |-> "recv", out |-> "item"]
               /\ recvLog' = recvLog
               /\ pc'[t] = "run"]_vars

\* a recv that switched directly into the parked sender has raised the
\* exception item the sender then threw
C14_RaisedAfterDirectSwitch ==
    /\ res = [task |-> "a", op |-> "recv", out |-> "item"]
    /\ pipes["m1"].recver_current = "a"
    /\ pc["root"] = "switch" /\ IsException(frame["root"].item)

\* C15: for every end that exists, ready is true exactly when the pipe is
\* not closed, the other end is live and a task is parked on the other end
\* (ready raising Closed or Abandoned is counted as not true)
C15_ReadyIffParked ==
    \A e \in {"s1", "r1"} :
        Live(e) =>
          (End_ready(pipes, middle, e) = "yes"
             <=> /\ ~pipes[middle[e]].closed
                 /\ other(pipes, middle, e) # None
                 /\ ParkedOn(other(pipes, middle, e)) # {})

\* C16: once the pipe is closed no item is handed over or returned by any
\* step, no task newly parks in a send or recv on it, and every send or
\* recv that returns at once raises Closed; a task left parked on it
\* therefore never returns an item
C16_NothingAfterClose ==
    [][pipes["m1"].closed =>
         /\ sentLog' = sentLog /\ recvLog' = recvLog
         /\ pipes'["m1"].closed
         /\ \A t \in PipeAgents :
              /\ pc'[t] \in {"send", "recv", "recv_sw"} => pc[t] = pc'[t]
              /\ (calls' = calls + 1 /\ cur = t /\ res' # res
                    /\ res'.op \in {"send", "recv"})
                 => res'.out = "Closed"]_vars

\* the pipe was closed while a task was parked in recv on it: the task is
\* still parked, and a recv another task called after the close raised Closed
C16_ClosedWhileParked ==
    /\ pipes["m1"].closed
    /\ ParkedOn("r1") # {}
    /\ res.op = "recv" /\ res.out = "Closed" /\ res.task \notin ParkedOn("r1")

\* the deque the set that task t is running isolated
Batch(t) == frame[t].item

\* task t takes a step of Event.set that switches into a waiter
SetSwitches(t) == cur = t /\ pc[t] \in {"run", "set"} /\ pc'[t] = "set"

\* C17: a wait on a fired Event returns at once and leaves the Event alone;
\* a wait on an unfired one appends the caller to the current deque and
\* enters hub.pause. For every deque the tasks set has switched into are a
\* prefix of the tasks wait appended to it (every waiter, in wait order,
\* once), each switch goes into the head of the deque that set isolated,
\* and when a set returns it has set fired and switched into all the
\* waiters of its deque, which is empty
C17_SetWakesInOrder ==
    /\ [](\A d \in 1..Len(event.deques) :
            /\ Len(hist.woken[d]) <= Len(hist.waited[d])
            /\ \A i \in 1..Len(hist.woken[d]) : hist.woken[d][i] = hist.waited[d][i]
            /\ Len(hist.woken[d]) + Len(event.deques[d]) = Len(hist.waited[d]))
    /\ [][\A t \in Agents :
            /\ (/\ cur = t /\ pc[t] = "run" /\ calls' = calls + 1
                /\ \/ pc'[t] = "wait"
                   \/ pc'[t] = "run" /\ res'.op = "wait")
               => IF event.fired
                  THEN /\ cur' = t /\ pc'[t] = "run" /\ res'.out = "ok"
                       /\ event' = event
                  ELSE /\ pc'[t] = "wait"
                       /\ event'.deques[event.waiters] =
                            Append(event.deques[event.waiters], t)
            /\ SetSwitches(t)
               => /\ event'.deques[Batch(t)'] # event.deques[Batch(t)']
                  /\ msg' = Unit
                  /\ LET w == Head(event.deques[Batch(t)'])
                     IN /\ event'.deques[Batch(t)'] = Tail(event.deques[Batch(t)'])
                        /\ cur' = w \/ pc[w] = "done"
                        /\ pc[t] = "run" => event'.fired
            /\ (cur = t /\ pc'[t] = "run" /\ res'.op = "set" /\ res'.out = "ok"
                  /\ (pc[t] = "set" \/ calls' = calls + 1))
               => LET d == IF pc[t] = "set" THEN Batch(t) ELSE event.waiters
                  IN /\ event'.deques[d] = <<>>
                     /\ hist'.woken[d] = hist'.waited[d]
                     /\ pc[t] = "run" => event'.fired]_vars

\* a set has returned after switching into two waiters in the order in
\* which they called wait
C17_TwoWokenInOrder ==
    /\ res = [task |-> "root", op |-> "set", out |-> "ok"]
    /\ pc["root"] = "run" /\ event.fired /\ event.waiters = 1
    /\ hist.waited[1] = <<"b", "a">>
    /\ hist.woken[1] = hist.waited[1]
    /\ event.deques[1] = <<>>

\* some set in progress isolated deque d
SetInProgress(d) == \E s \in Agents : pc[s] = "set" /\ Batch(s) = d

\* C18: clear makes a new empty deque the current one, resets fired and
\* leaves the old deques as they are; a set starting isolates the current
\* deque and keeps the same deque to its end, so that a deque that is no
\* longer current and that no set in progress isolated is never touched
\* again (its waiters are not woken by any later set), while a set in
\* progress over a deque that has been replaced goes on switching into its
\* remaining waiters; and while the hub runs a task suspended in wait is
\* resumed only by a set switching into it from the deque it waits in
C18_ClearIsolatesWaiters ==
    [][/\ (\/ event'.waiters # event.waiters
           \/ /\ calls' = calls + 1 /\ cur' = cur /\ pc' = pc
              /\ res'.op = "clear")
          => /\ event'.deques = Append(event.deques, <<>>)
             /\ event'.waiters = Len(event'.deques)
             /\ ~event'.fired
       /\ \A t \in Agents :
            /\ SetSwitches(t)
               => Batch(t)' = IF pc[t] = "set" THEN Batch(t) ELSE event.waiters
            /\ (cur = t /\ pc[t] = "set" /\ msg.k # "exc"
                  /\ event.deques[Batch(t)] # <<>>)
               => /\ pc'[t] = "set"
                  /\ cur' = Head(event.deques[Batch(t)])
            /\ (pc[t] = "wait" /\ cur # t /\ cur' = t /\ ~stopped')
               => \E s \in Agents :
                     /\ SetSwitches(s)
                     /\ Head(event.deques[Batch(s)']) = t
       /\ \A d \in 1..Len(event.deques) :
            (d # event.waiters /\ ~SetInProgress(d))
               => /\ event'.deques[d] = event.deques[d]
                  /\ hist'.woken[d] = hist.woken[d]]_vars

\* a woken waiter called clear while the set that woke it was in progress:
\* the set went on to wake the next waiter of its batch, a task that
\* called wait after the clear is still suspended, and the set has returned
C18_BatchFinishedAfterClear ==
    /\ event.waiters = 2 /\ ~event.fired
    /\ hist.waited[1] = <<"a", "b">> /\ hist.woken[1] = <<"a", "b">>
    /\ event.deques[2] = <<"a">> /\ pc["a"] = "wait"
    /\ pc["root"] = "run" /\ res.op = "set"

\* task t takes a step of Broadcast.send: the call or a resumption
SendSteps(t) ==
    /\ cur = t
    /\ \/ pc[t] = "bsend"
       \/ /\ pc[t] = "run" /\ calls' = calls + 1
          /\ pc'[t] = "bsend" \/ (pc'[t] = "run" /\ res'.op = "bsend")

\* where that step starts: the list it iterates, the position of the first
\* subscriber it visits and the subscribers it has found halted so far
SendOver(t) == IF pc[t] = "bsend" THEN frame[t].over ELSE subscribers.list
SendFrom(t) == IF pc[t] = "bsend" THEN frame[t].index + 1 ELSE 1
SendFound(t) ==
    IF pc[t] = "bsend"
    THEN { frame[t].to_remove[k] : k \in 1..Len(frame[t].to_remove) }
    ELSE {}

\* subscriber x has a recver that is alive, on a pipe that is open, with a
\* task parked in recv
HasParked(x) ==
    /\ ~halted(pipes, middle, x)
    /\ ParkedOn(other(pipes, middle, x)) # {}

\* the subscribers a step of send visits without delivering, when it stops
\* at position j (past the end when it returns)
Passed(t, j) == { k \in SendFrom(t)..(j - 1) : k <= Len(subscribers.lists[SendOver(t)]) }

\* what a step of Broadcast.send does, but for the list it leaves when it
\* returns: it passes over, in list order, the subscribers with no task
\* parked in recv, and either delivers the item to the task parked on the
\* first subscriber that has one, going itself to the tail of ready, or
\* reaches the end of the list and returns
SendVisits(t) ==
    LET L == subscribers.lists[SendOver(t)]
    IN IF pc'[t] = "bsend"
       THEN LET j == frame'[t].index
            IN /\ j \in SendFrom(t)..Len(L)
               /\ frame'[t].over = SendOver(t)
               /\ \A k \in Passed(t, j) : ~HasParked(L[k])
               /\ HasParked(L[j])
               /\ cur' \in ParkedOn(other(pipes, middle, L[j]))
               /\ msg' = Pair(other(pipes, middle, L[j]), frame'[t].item)
               /\ ready' = Append(ready, GreenletEntry(t))
               /\ { frame'[t].to_remove[k] : k \in 1..Len(frame'[t].to_remove) }
                    = SendFound(t) \cup
                      { L[k] : k \in { i \in Passed(t, j) : halted(pipes, middle, L[i]) } }
               /\ subscribers' = subscribers
       ELSE /\ pc'[t] = "run" /\ cur' = t
            /\ \A k \in Passed(t, Len(L) + 1) : ~HasParked(L[k])

\* the subscribers a returning send found closed or abandoned when it
\* visited them
FoundHalted(t) ==
    LET L == subscribers.lists[SendOver(t)]
    IN SendFound(t) \cup
       { L[k] : k \in { i \in Passed(t, Len(L) + 1) : halted(pipes, middle, L[i]) } }

\* the subscribers list after the step keeps, in their order, the
\* subscribers of the list before it that are not in S
Keeps(S) ==
    LET kept(x) == x \notin S
    IN Subscribers(subscribers') = SelectSeq(Subscribers(subscribers), kept)

\* a step by which a Broadcast.send returns
SendReturns(t) == SendSteps(t) /\ pc'[t] = "run" /\ res'.out = "ok"

\* C19 (as stated): send visits the subscribers in subscription order,
\* delivers to exactly those with a task parked in recv when visited, never
\* blocks, and when it returns every subscriber whose pipe is closed or
\* abandoned has been removed from the list, the others keeping their order
C19_HaltedAllRemoved ==
    [][\A t \in Agents :
         /\ SendSteps(t) => SendVisits(t)
         /\ SendReturns(t)
            => Keeps({ x \in Senders : halted(pipes', middle', x) })]_vars

\* C19 (amended): send visits the subscribers in subscription order,
\* delivers to exactly those with a task parked in recv when visited, never
\* blocks, and when it returns every subscriber it found closed or
\* abandoned when it visited it has been removed from the list, the others
\* keeping their order
C19_FoundHaltedRemoved ==
    [][\A t \in Agents :
         /\ SendSteps(t) => SendVisits(t)
         /\ SendReturns(t) => Keeps(FoundHalted(t))]_vars

\* a send has returned that delivered to the first subscriber and removed
\* the second, which it found abandoned, while the first, closed by its
\* receiver after the delivery, is still subscribed
C19_ClosedAfterVisitKept ==
    /\ res.op = "bsend" /\ res.out = "ok"
    /\ recvLog = <<1>>
    /\ subscribers.list = 2
    /\ Subscribers(subscribers) = <<"s1">>
    /\ pipes["m1"].closed
    /\ pipes["m2"].recver = None

\* task t, suspended in recv, is being resumed by the send of task s, which
\* has just switched into it at a position of the waiters that was filled
\* when that send was called
WokenBy(t, s) ==
    /\ cur = t /\ pc[t] = "vrecv" /\ msg = Unit
    /\ ready # <<>> /\ ready[Len(ready)] = GreenletEntry(s)
    /\ pc[s] = "vsend"
    /\ frame[s].index <= frame[s].over
    /\ value.waiters[frame[s].index] = t

\* C20: a task that was parked in recv when send(v) was called and that
\* this send resumes returns v from its recv; a send returns only after it
\* has gone through every waiter it had when called; and a recv called
\* while the Value holds v returns v at once
C20_WaitersGetValue ==
    [][\A t \in Agents :
         /\ \A s \in Agents :
              WokenBy(t, s)
                 => /\ res' = [task |-> t, op |-> "vrecv", out |-> "ok"]
                    /\ recvLog' = Append(recvLog, frame[s].item)
         /\ (cur = t /\ pc[t] = "vsend" /\ pc'[t] = "run")
            => frame[t].index >= frame[t].over
         /\ (/\ cur = t /\ pc[t] = "run" /\ calls' = calls + 1 /\ value.has
             /\ pc'[t] = "vrecv" \/ (pc'[t] = "run" /\ res'.op = "vrecv"))
            => /\ pc'[t] = "run" /\ cur' = t
               /\ res' = [task |-> t, op |-> "vrecv", out |-> "ok"]
               /\ recvLog' = Append(recvLog, value.value)]_vars

\* a task is resumed in a timed pause (its own, or the one inside a send or
\* recv) by something other than a Timeout
ResumedEarly(t) ==
    /\ cur = t /\ pc[t] \in {"pause", "send", "recv"}
    /\ frame[t].tmo > -1
    /\ msg.k # "timeout"
    /\ pc'[t] # pc[t]

\* C25: whenever a task parked in pause(timeout >= 0) is resumed before its
\* timer fires, by a value or by a thrown exception, the timer item is
\* tombstoned by that step, and the loop switches a Timeout only into the
\* task still suspended in the pause that armed it.
C25_TimerTombstoned ==
    /\ [][\A t \in PipeAgents :
            ResumedEarly(t) => frame[t].timer \in scheduled'.removed]_vars
    /\ [][(cur = Loop /\ msg'.k = "timeout" /\ cur' \in Agents) =>
            /\ pc[cur'] \in {"pause", "send", "recv"}
            /\ frame[cur'].timer.args = msg'.b]_vars

\* C23: when the function given to map raises Filter for an item, nothing is
\* sent downstream for that item: the Filter instance is never the item the
\* transform sends, parks with, or throws into the receiver.
C23_FilterDropsItem ==
    /\ \A i \in 1..Len(hist.emitted) : hist.emitted[i] # FilterExc
    /\ frame[FnTask].item # FilterExc
    /\ msg # Exc("item", FilterExc)

LoopRunsTimer == cur = Loop /\ scheduled' # scheduled

\* the loop comes back from epoll.poll with an event for a file descriptor
LoopPolled ==
    cur = Loop /\ \E fd \in Fds : registered'[fd].seen # registered[fd].seen

\* C26: the loop runs a timer, or waits in epoll.poll, only when ready is
\* empty; a step that runs a timer takes exactly one live entry off the
\* heap and switches into its task (a dead task hands control straight
\* back), so that the loop is at the drain of ready again before it can
\* run another
C26_ReadyDrainedFirst ==
    [][/\ (LoopRunsTimer \/ LoopPolled) => ready = <<>>
       /\ LoopRunsTimer =>
            /\ scheduled'.count = scheduled.count - 1
            /\ cur' \in Agents \cup {Loop}
            /\ ready' = <<>>]_vars

\* the loop is at the top of an iteration with a timer due and an entry
\* in ready, in a run where it has already run a timer
C26_TimerDueWhileReady ==
    /\ cur = Loop /\ ready # <<>>
    /\ scheduled.count > 0
    /\ Scheduler_timeout(scheduled, now) <= 0
    /\ now > 0
\* C28: whenever a file descriptor that was registered is no longer in
\* epoll, its channel has already been closed
C28_ClosedBeforeEpollRemoval ==
    \A fd \in Fds :
        (registered[fd].made /\ ~registered[fd].polled) => registered[fd].closed
\* line 404: the step of unregister(fd) that takes fd out of Hub.registered,
\* after which the call returns
UnregisterReturns(fd) == registered[fd].on /\ ~registered'[fd].on

\* the tasks suspended in a recv on the channel of fd
WaitingOn(fd) == {t \in Agents : pc[t] = "chrecv" /\ frame[t].end = fd}

\* C21: when unregister(fd) returns the fd is out of Hub.registered, its
\* channel is closed, the channel has no waiters and no task is suspended
\* in a recv on it
C21_UnregisterWakesAll ==
    [][\A fd \in Fds :
         UnregisterReturns(fd) =>
            /\ registered'[fd].closed
            /\ registered'[fd].waiters = <<>>
            /\ WaitingOn(fd)' = {}]_vars

\* the events a channel holds in its items deque, oldest first
RECURSIVE EventsOf(_)
EventsOf(items) ==
    IF items = <<>> THEN <<>>
    ELSE IF IsException(Head(items)) THEN EventsOf(Tail(items))
    ELSE <<Head(items)>> \o EventsOf(Tail(items))

\* the event that send has handed to a task whose recv on fd is about to
\* return it
InHand(fd) ==
    IF cur \in Agents /\ pc[cur] = "chrecv" /\ frame[cur].end = fd
         /\ msg.k = "pair" /\ msg.a = fd
    THEN <<msg.b>> ELSE <<>>

\* C27: the events sent on the channel of an fd are, in the order sent and
\* each once, those its recv has returned, then the one in the hands of a
\* woken waiter, then those in items; and items and waiters are never both
\* non-empty
C27_ExactlyOnceInOrder ==
    \A fd \in Fds :
        /\ registered[fd].got \o InHand(fd) \o EventsOf(registered[fd].items)
              = [i \in 1..registered[fd].seen |-> i]
        /\ registered[fd].items = <<>> \/ registered[fd].waiters = <<>>
\* the entries of the timer heap that are not tombstoned
LiveEntries ==
    {i \in 1..Len(scheduled.queue) : scheduled.queue[i] \notin scheduled.removed}

\* C30: len(scheduled) is the number of entries of the heap that are not
\* tombstoned, so that whenever it is positive, which is when the loop and
\* Hub.stop call timeout() and pop(), prune finds a live entry; Hub.stop
\* never ends with the IndexError of a prune that ran off the heap
C30_LiveItemWhenNonEmpty ==
    /\ scheduled.count = Cardinality(LiveEntries)
    /\ scheduled.count > 0 => ~PruneFaults(scheduled)
    /\ res.out # "IndexError"

\* Hub.stop comes back from its sleep, about to pop the heap, which holds a
\* tombstone and a live entry
C30_StopPopsPastTombstone ==
    /\ cur = Root /\ pc[Root] = "stop_sleep"
    /\ scheduled.removed # {}
    /\ scheduled.count > 0

\* the main greenlet is inside a call of Hub.stop
InStop == pc[Root] \in {"stop_sleep", "stop_send", "stop_throw", "stop_wait"}

\* C22: a call of Hub.stop ends by returning, and when it does every entry
\* is off the timer heap and stopped is set
C22_StopsEverything ==
    [][(InStop /\ pc'[Root] = "run") =>
          /\ res'.out = "ok"
          /\ scheduled'.count = 0
          /\ stopped']_vars

\* C24: while a channel that subscribe returned has not been handed to
\* unsubscribe, it is in mapper and reverse_mapper, and the Signal has a
\* signalfd that is registered with the hub and with epoll
C24_SubscribedStaysWired ==
    signal.held # {} =>
        /\ \A c \in signal.held :
              /\ c \in signal.reverse_mapper
              /\ \E i \in 1..Len(signal.mapper) : signal.mapper[i] = c
        /\ signal.fd # None
        /\ registered[signal.fd].on
        /\ registered[signal.fd].polled
\* C31: whenever a send or recv call on a Pipe end finishes, by returning
\* or by raising, no end's parked-task slot names the calling task any more
C31_SlotFreedWhenCallEnds ==
    [][\A t \in Greenlets :
         (/\ cur' = t /\ pc'[t] = "run"
          /\ res'.task = t /\ res'.op \in {"send", "recv"}
          /\ (pc[t] \in {"send", "recv", "recv_sw", "switch"}
                \/ calls' = calls + 1))
         => \A e \in Ends :
              Live(e)' => current(pipes', middle', e) # t]_vars

\* C33: while the hub runs, every task a Value.send switches into is
\* suspended inside Value.recv at that moment: a waiter whose recv raised
\* Timeout, or that an earlier send already resumed, is not switched into
\* again
C33_OnlyParkedWaitersResumed ==
    [][\A s \in Agents :
         (/\ ~stopped
          /\ cur = s /\ pc[s] \in {"run", "vsend"} /\ pc'[s] = "vsend"
          /\ ready' = Append(ready, GreenletEntry(s)))
         => pc[value.waiters[frame'[s].index]] = "vrecv"]_vars

\* r1.pipe(fn) or s3.connect(r1) has been applied
Rewired == pipes["m2"] # NoPipe \/ middle["r1"] = Detached

\* a task is suspended in the hub.pause of a send, or of a recv, on end e
PausedOn(e) == { g \in ParkedOn(e) : pc[g] \in {"send", "recv"} }

\* C32: after a rewiring and while the hub runs, every non-empty parked
\* slot of a surviving pipe names a task suspended on the end now attached
\* to that side; a task that was parked across the rewiring finds its end's
\* slot naming it when it resumes, so its unselect succeeds; and no pipe is
\* left with a sender and a receiver both suspended in their pauses,
\* waiting for each other
C32_RewiringKeepsParked ==
    (Rewired /\ ~stopped) =>
      /\ \A e \in Ends :
           (middle[e] # Detached /\ Live(e)
              /\ current(pipes, middle, e) # None)
           => current(pipes, middle, e) \in ParkedOn(e)
      /\ \A t \in Agents :
           (cur = t /\ pc[t] \in {"send", "recv"})
           => /\ middle[frame[t].end] # Detached
              /\ unselect_ok(pipes, middle, frame[t].end, t)
      /\ \A m \in Pipes :
           (pipes[m].sender # None /\ pipes[m].recver # None)
           => ~(PausedOn(pipes[m].sender) # {} /\ PausedOn(pipes[m].recver) # {})

====
